---- MODULE Spec2Model ----
(***************************************************************************)
(* A model of simpy-markdown (src/main.py): the preprocessor, the rule     *)
(* table with its regular expressions, the rule-dispatch parse engine      *)
(* (parser_for), the reference registry and the HTML output rules.         *)
(*                                                                         *)
(* Text is a sequence of one-character strings.  Python values stored in   *)
(* nodes are tagged records: PyStr, PyList, PyNone, PyInt; a node (a       *)
(* Python dict) is a record whose DOMAIN is the dict's key set, so a       *)
(* missing key is a missing field.                                         *)
(***************************************************************************)
EXTENDS Integers, Sequences, FiniteSets, TLC

(***************************************************************************)
(* Characters and character classes.                                       *)
(***************************************************************************)
NL == "\n"
CR == "\r"
TAB == "\t"
FF == "\f"
SP == " "
BSL == "\\"
DQ == "\""
\* the backtick, which a TLA+ string cannot hold
BT == "BACKTICK"

Digits == {"0", "1", "2", "3", "4", "5", "6", "7", "8", "9"}
LowerSeq == <<"a", "b", "c", "d", "e", "f", "g", "h", "i", "j", "k", "l", "m",
              "n", "o", "p", "q", "r", "s", "t", "u", "v", "w", "x", "y", "z">>
UpperSeq == <<"A", "B", "C", "D", "E", "F", "G", "H", "I", "J", "K", "L", "M",
              "N", "O", "P", "Q", "R", "S", "T", "U", "V", "W", "X", "Y", "Z">>
Letters == {LowerSeq[i] : i \in DOMAIN LowerSeq} \cup {UpperSeq[i] : i \in DOMAIN UpperSeq}
\* \s of Python's re for str patterns, restricted to ASCII
Space == {SP, TAB, NL, CR, FF}
\* \w
Word == Letters \cup Digits \cup {"_"}

\* str.lower() on one character
LowerChar(c) ==
  IF \E i \in DOMAIN UpperSeq : UpperSeq[i] = c
  THEN LowerSeq[CHOOSE i \in DOMAIN UpperSeq : UpperSeq[i] = c]
  ELSE c

\* str.lower()
Lower(s) == [i \in DOMAIN s |-> LowerChar(s[i])]

(***************************************************************************)
(* Python values held in nodes.                                            *)
(***************************************************************************)
PyStr(s) == [str |-> s]
PyList(xs) == [list |-> xs]
PyNone == [none |-> TRUE]
PyInt(n) == [int |-> n]
PyBool(b) == [bool |-> b]
IsNone(v) == DOMAIN v = {"none"}
IsStr(v) == DOMAIN v = {"str"}
IsList(v) == DOMAIN v = {"list"}
\* a dict used as a table (state['_defs'], state['_refs']); a node is a record
PyDict(f) == [dict |-> f]
EmptyDict == [x \in {} |-> PyNone]
\* d[k] = v
SetField(d, k, v) == [x \in DOMAIN d \cup {k} |-> IF x = k THEN v ELSE d[x]]

\* bool(v) of Python for the values above
Truthy(v) ==
  IF IsNone(v) THEN FALSE
  ELSE IF IsStr(v) THEN v.str # <<>>
  ELSE IF IsList(v) THEN v.list # <<>>
  ELSE IF DOMAIN v = {"int"} THEN v.int # 0
  ELSE IF DOMAIN v = {"bool"} THEN v.bool
  ELSE IF DOMAIN v = {"dict"} THEN DOMAIN v.dict # {}
  ELSE TRUE

(***************************************************************************)
(* Regular expressions of Python's re module, as syntax trees, and a       *)
(* matcher that gives the matches in the order re's backtracking tries     *)
(* them, the first being the match re returns.                             *)
(***************************************************************************)
Inf == 0 - 1

Ch(S) == [t |-> "set", cs |-> S]
NCh(S) == [t |-> "nset", cs |-> S]
C(c) == Ch({c})
Dot == NCh({NL})
AnyCh == NCh({})
Cat(xs) == [t |-> "cat", xs |-> xs]
Alt(xs) == [t |-> "alt", xs |-> xs]
Rep(x, lo, hi, lazy) == [t |-> "rep", x |-> x, lo |-> lo, hi |-> hi, lazy |-> lazy]
Star(x) == Rep(x, 0, Inf, FALSE)
Plus(x) == Rep(x, 1, Inf, FALSE)
Opt(x) == Rep(x, 0, 1, FALSE)
LazyStar(x) == Rep(x, 0, Inf, TRUE)
LazyPlus(x) == Rep(x, 1, Inf, TRUE)
Grp(n, x) == [t |-> "grp", n |-> n, x |-> x]
BackRef(n) == [t |-> "ref", n |-> n]
LookAhead(x) == [t |-> "la", x |-> x]
NotAhead(x) == [t |-> "nla", x |-> x]
Bol == [t |-> "bol"]
Eol == [t |-> "eol"]
EolM == [t |-> "eolm"]
WordB == [t |-> "wb"]
Lit(s) == Cat([i \in DOMAIN s |-> C(s[i])])

\* no regular expression of the program has more than three groups
NoGroups == <<<<0, 0>>, <<0, 0>>, <<0, 0>>>>
NoMatch == [ok |-> FALSE]

IsWordAt(s, i) == i >= 1 /\ i <= Len(s) /\ s[i] \in Word

RECURSIVE FlattenFrom(_)
FlattenFrom(parts) ==
  IF parts = <<>> THEN <<>> ELSE Head(parts) \o FlattenFrom(Tail(parts))
\* the sequences of parts, one after the other (''.join(parts) for texts)
Flatten(parts) == FlattenFrom(<<>> \o parts)

RECURSIVE IsOne(_)
\* x takes exactly one character and sets no group: a set, an alternative or
\* a set with lookaheads after it
IsOne(x) ==
  CASE x.t \in {"set", "nset"} -> TRUE
    [] x.t = "alt" -> \A j \in DOMAIN x.xs : IsOne(x.xs[j])
    [] x.t = "cat" -> /\ x.xs # <<>>
                      /\ IsOne(x.xs[1])
                      /\ \A j \in 2..Len(x.xs) : x.xs[j].t \in {"la", "nla"}
    [] OTHER -> FALSE

\* the one way to match nothing more: the match ends at e with the groups g
Out(e, g) == <<[e |-> e, g |-> g]>>

\* the least number of a set of numbers
Least(numbers) == CHOOSE j \in numbers : \A m \in numbers : j <= m

RECURSIVE E(_, _, _, _)
RECURSIVE OneAt(_, _, _, _)
RECURSIVE CatE(_, _, _, _)
RECURSIVE RepE(_, _, _, _, _, _)

\* E(x, s, i, g): every way x matches s from position i on with the groups g
\* set so far, in the order the backtracking of re tries them (the greedy
\* before the shorter, the lazy before the longer, the left alternative
\* first); each is the position after the match and the groups then

\* x, with IsOne(x), matches the character at i
OneAt(x, s, i, g) ==
  CASE x.t = "set" -> i <= Len(s) /\ s[i] \in x.cs
    [] x.t = "nset" -> i <= Len(s) /\ s[i] \notin x.cs
    [] x.t = "alt" -> \E j \in DOMAIN x.xs : OneAt(x.xs[j], s, i, g)
    [] x.t = "cat" -> /\ OneAt(x.xs[1], s, i, g)
                      /\ \A j \in 2..Len(x.xs) :
                            (E(x.xs[j].x, s, i + 1, g) # <<>>) = (x.xs[j].t = "la")

\* xs[k], xs[k + 1], ... after each of the matches outs of what is before
CatE(xs, k, outs, s) ==
  IF k > Len(xs) \/ outs = <<>> THEN outs
  ELSE CatE(xs, k + 1,
            Flatten([o \in DOMAIN outs |-> E(xs[k], s, outs[o].e, outs[o].g)]), s)

\* the repetition after a turn that ended as out: a turn that took no
\* character ends the repetition
RepTurn(k, lo, hi, s, i, out) ==
  IF out.e = i THEN <<out>>
  ELSE RepE(k, IF lo > 0 THEN lo - 1 ELSE 0, IF hi = Inf THEN Inf ELSE hi - 1,
            s, out.e, out.g)

\* the repetition after each of the ways body to take one more turn
RepIter(k, lo, hi, s, i, body) ==
  IF body = <<>> THEN <<>>
  ELSE IF Len(body) = 1 THEN RepTurn(k, lo, hi, s, i, body[1])
  ELSE Flatten([o \in DOMAIN body |-> RepTurn(k, lo, hi, s, i, body[o])])

\* greedy: one more turn is tried before stopping; lazy: after
RepOrder(lazy, stop, iter) == IF lazy THEN stop \o iter ELSE iter \o stop

\* k.x between lo and hi times (hi = Inf: any number)
RepE(k, lo, hi, s, i, g) ==
  RepOrder(k.lazy, IF lo = 0 THEN Out(i, g) ELSE <<>>,
           RepIter(k, lo, hi, s, i, IF hi = 0 THEN <<>> ELSE E(k.x, s, i, g)))

\* how many characters from i on x, with IsOne(x), takes one after the other
RunOf(x, s, i, g) == Least({j \in 0..(Len(s) - i + 1) : ~OneAt(x, s, i + j, g)})

\* the repetitions lo to hi times of a run of run characters from i on
RunE(lo, hi, lazy, i, g, run) ==
  IF hi # Inf /\ hi < run
  THEN IF hi < lo THEN <<>>
       ELSE <<>> \o [n \in 1..(hi - lo + 1) |->
                      [e |-> i + (IF lazy THEN lo + n - 1 ELSE hi - n + 1), g |-> g]]
  ELSE IF run < lo THEN <<>>
       ELSE <<>> \o [n \in 1..(run - lo + 1) |->
                      [e |-> i + (IF lazy THEN lo + n - 1 ELSE run - n + 1), g |-> g]]

\* the matches r of the inside of group n, with the group set
GrpE(n, i, r) ==
  <<>> \o [o \in DOMAIN r |-> [e |-> r[o].e, g |-> [r[o].g EXCEPT ![n] = <<i, r[o].e>>]]]

\* the text b[1] .. b[2] - 1 that a group took, again at i
RefE(b, s, i, g) ==
  IF b[1] # 0 /\ i + (b[2] - b[1]) - 1 <= Len(s)
     /\ SubSeq(s, i, i + (b[2] - b[1]) - 1) = SubSeq(s, b[1], b[2] - 1)
  THEN Out(i + (b[2] - b[1]), g) ELSE <<>>

E(x, s, i, g) ==
  CASE x.t = "set" -> IF i <= Len(s) /\ s[i] \in x.cs THEN Out(i + 1, g) ELSE <<>>
    [] x.t = "nset" -> IF i <= Len(s) /\ s[i] \notin x.cs THEN Out(i + 1, g) ELSE <<>>
    [] x.t = "cat" -> CatE(x.xs, 1, Out(i, g), s)
    [] x.t = "alt" -> Flatten([j \in DOMAIN x.xs |-> E(x.xs[j], s, i, g)])
    [] x.t = "rep" ->
         IF IsOne(x.x) THEN RunE(x.lo, x.hi, x.lazy, i, g, RunOf(x.x, s, i, g))
         ELSE RepE(x, x.lo, x.hi, s, i, g)
    [] x.t = "grp" -> GrpE(x.n, i, E(x.x, s, i, g))
    [] x.t = "ref" -> RefE(g[x.n], s, i, g)
    [] x.t = "la" -> IF E(x.x, s, i, g) # <<>> THEN Out(i, g) ELSE <<>>
    [] x.t = "nla" -> IF E(x.x, s, i, g) # <<>> THEN <<>> ELSE Out(i, g)
    [] x.t = "bol" -> IF i = 1 THEN Out(i, g) ELSE <<>>
    [] x.t = "eol" ->
         IF i = Len(s) + 1 \/ (i = Len(s) /\ s[i] = NL) THEN Out(i, g) ELSE <<>>
    [] x.t = "eolm" ->
         IF i = Len(s) + 1 \/ (i <= Len(s) /\ s[i] = NL) THEN Out(i, g) ELSE <<>>
    [] x.t = "wb" -> IF IsWordAt(s, i - 1) # IsWordAt(s, i) THEN Out(i, g) ELSE <<>>

\* the match object of the first of the ways r to match
FirstOf(r) == IF r = <<>> THEN NoMatch ELSE [ok |-> TRUE, e |-> r[1].e, g |-> r[1].g]

\* pattern.match(s, pos) with pos = i - 1: a match starting exactly at i
MatchAt(re, s, i) == FirstOf(E(re, s, i, NoGroups))

\* re.match(regex, source)
ReMatch(re, s) == MatchAt(re, s, 1)

\* m[n] of a match object: group n as text (m[0] with n = 0); None is Absent
GroupSet(m, n) == n = 0 \/ m.g[n][1] # 0
Group(m, s, n) ==
  IF n = 0 THEN SubSeq(s, 1, m.e - 1)
  ELSE SubSeq(s, m.g[n][1], m.g[n][2] - 1)

(***************************************************************************)
(* The regular expressions of src/main.py.                                 *)
(***************************************************************************)
NotAlnumSpace == NCh(Digits \cup Letters \cup Space)
\* (?:\n *)+\n
BlankTail == Cat(<<Plus(Cat(<<C(NL), Star(C(SP))>>)), C(NL)>>)

CR_NEWLINE_R == Cat(<<C(CR), Opt(C(NL))>>)
TAB_R == C(TAB)
FORMFEED_R == C(FF)

SANITIZE_TEXT_R == Ch({"<", ">", "&", DQ, "'"})
UNESCAPE_URL_R == Cat(<<C(BSL), Grp(1, NotAlnumSpace)>>)

LIST_BULLET == Alt(<<Ch({"*", "+", "-"}), Cat(<<Plus(Ch(Digits)), C(".")>>)>>)
LIST_ITEM_PREFIX == Cat(<<Grp(1, Star(C(SP))), Grp(2, LIST_BULLET), Plus(C(SP))>>)
LIST_ITEM_PREFIX_R == Cat(<<Bol, LIST_ITEM_PREFIX>>)
\* compiled with re.MULTILINE: its $ is EolM
LIST_ITEM_R ==
  Cat(<<LIST_ITEM_PREFIX, Star(Dot),
        Star(Cat(<<C(NL), NotAhead(Cat(<<BackRef(1), LIST_BULLET, C(SP)>>)), Star(Dot)>>)),
        Grp(3, Alt(<<C(NL), EolM>>))>>)
BLOCK_END_R == Cat(<<Rep(C(NL), 2, Inf, FALSE), Eol>>)
INLINE_CODE_ESCAPE_BACKTICKS_R ==
  Alt(<<Cat(<<Bol, C(SP), LookAhead(Cat(<<Star(C(SP)), C(BT)>>))>>),
        Cat(<<Grp(1, Cat(<<C(BT), Star(C(SP))>>)), C(SP), Eol>>)>>)
LIST_BLOCK_END_R == BLOCK_END_R
LIST_ITEM_END_R == Cat(<<Star(C(SP)), Plus(C(NL)), Eol>>)
LIST_R ==
  Cat(<<Bol, Grp(1, Star(C(SP))), Grp(2, LIST_BULLET), C(SP), LazyPlus(AnyCh),
        Alt(<<Cat(<<Rep(C(NL), 2, Inf, FALSE), NotAhead(C(SP)),
                    NotAhead(Cat(<<BackRef(1), LIST_BULLET, C(SP)>>)), Star(C(NL))>>),
              Cat(<<Star(Ch(Space)), Star(C(NL)), Eol>>)>>)>>)
LIST_LOOKBEHIND_R == Cat(<<Alt(<<Bol, C(NL)>>), Grp(1, Star(C(SP))), Eol>>)

TABLE_ROW_SEPARATOR_TRIM ==
  Alt(<<Cat(<<Bol, Star(C(SP)), C("|"), Star(C(SP))>>),
        Cat(<<Star(C(SP)), C("|"), Star(C(SP)), Eol>>)>>)
TABLE_CELL_END_TRIM == Cat(<<Star(C(SP)), Eol>>)
TABLE_RIGHT_ALIGN == Cat(<<Bol, Star(C(SP)), Plus(C("-")), C(":"), Star(C(SP)), Eol>>)
TABLE_CENTER_ALIGN == Cat(<<Bol, Star(C(SP)), C(":"), Plus(C("-")), C(":"), Star(C(SP)), Eol>>)
TABLE_LEFT_ALIGN == Cat(<<Bol, Star(C(SP)), C(":"), Plus(C("-")), Star(C(SP)), Eol>>)
TABLE_REGEX ==
  Cat(<<Bol, Star(C(SP)), Grp(1, Cat(<<C("|"), Plus(Dot)>>)), C(NL), Star(C(SP)), C("|"),
        Grp(2, Cat(<<Star(C(SP)), Plus(Ch({"-", ":"})), Star(Ch({"-", "|", SP, ":"}))>>)), C(NL),
        Grp(3, Star(Cat(<<Star(C(SP)), C("|"), Star(Dot), Alt(<<C(NL), Eol>>)>>))),
        Star(C(NL))>>)
NPTABLE_REGEX ==
  Cat(<<Bol, Star(C(SP)), Grp(1, Cat(<<NCh(Space), Star(Dot), C("|"), Star(Dot)>>)), C(NL),
        Star(C(SP)),
        Grp(2, Cat(<<Plus(Ch({"-", ":"})), Star(C(SP)), C("|"), Star(Ch({"-", "|", SP, ":"}))>>)),
        C(NL),
        Grp(3, Star(Cat(<<Star(Dot), C("|"), Star(Dot), Alt(<<C(NL), Eol>>)>>))),
        Star(C(NL))>>)

LINK_INSIDE ==
  Star(Alt(<<Cat(<<C("["), Star(NCh({"]"})), C("]")>>),
             NCh({"[", "]"}),
             Cat(<<C("]"), LookAhead(Cat(<<Star(NCh({"["})), C("]")>>))>>)>>))
\* its two groups are numbered 2 and 3: every user puts one group before it
LINK_HREF_AND_TITLE ==
  Cat(<<Star(Ch(Space)), Opt(C("<")),
        Grp(2, LazyStar(Alt(<<Cat(<<C("("), Star(NCh({")"})), C(")")>>),
                              NCh(Space \cup {BSL}),
                              Cat(<<C(BSL), Dot>>)>>))),
        Opt(C(">")),
        Opt(Cat(<<Plus(Ch(Space)), Ch({"'", DQ}), Grp(3, LazyStar(AnyCh)), Ch({"'", DQ})>>)),
        Star(Ch(Space))>>)
\* re.IGNORECASE
AUTOLINK_MAILTO_CHECK_R ==
  Cat(<<Ch({"m", "M"}), Ch({"a", "A"}), Ch({"i", "I"}), Ch({"l", "L"}), Ch({"t", "T"}),
        Ch({"o", "O"}), C(":")>>)
\* r'\s+' of parse_ref and Def.parse
WHITESPACE_R == Plus(Ch(Space))

Heading_R ==
  Cat(<<Bol, Star(C(SP)), Grp(1, Rep(C("#"), 1, 6, FALSE)), Grp(2, LazyPlus(Dot)),
        Star(C("#")), Star(C(SP)), BlankTail>>)
LHeading_R ==
  Cat(<<Bol, Grp(1, Plus(Dot)), C(NL), Star(C(SP)),
        Rep(Grp(2, Alt(<<C("="), C("-")>>)), 3, Inf, FALSE), Star(C(SP)), BlankTail>>)
HR_R ==
  Cat(<<Bol, Rep(Grp(1, Cat(<<Star(C(SP)), Ch({"-", "*", "_"})>>)), 3, Inf, FALSE),
        Star(C(SP)), BlankTail>>)
CodeBlock_R ==
  Cat(<<Bol, Plus(Cat(<<Lit(<<SP, SP, SP, SP>>), Plus(Dot), Star(C(NL))>>)), BlankTail>>)
\* re.sub(r'^    ', '', ...) and re.sub(r'\n+$', '', ...) of CodeBlock.parse
CodeBlock_INDENT_R == Cat(<<Bol, Lit(<<SP, SP, SP, SP>>)>>)
CodeBlock_END_R == Cat(<<Plus(C(NL)), Eol>>)
Fence_R ==
  Cat(<<Bol, Star(C(SP)),
        Grp(1, Alt(<<Rep(C(BT), 3, Inf, FALSE), Rep(C("~"), 3, Inf, FALSE)>>)),
        Star(C(SP)), Opt(Cat(<<Grp(2, Plus(NCh(Space))), Star(C(SP))>>)), C(NL),
        Grp(3, LazyPlus(AnyCh)), Opt(C(NL)), BackRef(1), Star(C(SP)), BlankTail>>)
BlockQuote_R ==
  Cat(<<Bol,
        Plus(Grp(1, Cat(<<Star(C(SP)), C(">"), Plus(Dot),
                          Star(Grp(2, Cat(<<C(NL), Plus(Dot)>>))), Star(C(NL))>>))),
        Rep(C(NL), 2, Inf, FALSE)>>)
\* re.sub(r'^ *> ?', '', capture[0]) of BlockQuote.parse
BlockQuote_PREFIX_R == Cat(<<Bol, Star(C(SP)), C(">"), Opt(C(SP))>>)
\* re.sub(r'[^\d]+?', '', bullet) of List.parse
List_NONDIGIT_R == LazyPlus(NCh(Digits))
Def_R ==
  Cat(<<Bol, Star(C(SP)), C("["), Grp(1, Plus(NCh({"]"}))), C("]"), C(":"), Star(C(SP)),
        Opt(C("<")), Grp(2, Star(NCh(Space \cup {">"}))), Opt(C(">")),
        Opt(Cat(<<Plus(C(SP)), Ch({DQ, "("}), Grp(3, Plus(Dot)), Ch({DQ, ")"})>>)),
        Star(C(SP)), C(NL), Star(Cat(<<Star(C(SP)), C(NL)>>))>>)
NewLine_R == Cat(<<Bol, Star(Cat(<<C(NL), Star(C(SP))>>)), C(NL)>>)
Paragraph_R ==
  Cat(<<Bol,
        Grp(1, Plus(Alt(<<Dot, Cat(<<C(NL), NotAhead(Cat(<<Star(C(SP)), C(NL)>>))>>)>>))),
        BlankTail>>)
Escape_R == Cat(<<Bol, C(BSL), Grp(1, NotAlnumSpace)>>)
TableSeparator_R == Cat(<<Bol, Star(C(SP)), C("|"), Star(C(SP))>>)
AutoLink_R ==
  Cat(<<Bol, C("<"),
        Grp(1, Cat(<<Plus(NCh({":", SP, ">"})), C(":"), C("/"), Plus(NCh({SP, ">"}))>>)),
        C(">")>>)
MailTo_R ==
  Cat(<<Bol, C("<"), Grp(1, Cat(<<Plus(NCh({SP, ">"})), C("@"), Plus(NCh({SP, ">"}))>>)),
        C(">")>>)
URL_R ==
  Cat(<<Bol,
        Grp(1, Cat(<<Lit(<<"h", "t", "t", "p">>), Opt(C("s")), Lit(<<":", "/", "/">>),
                     Plus(NCh(Space \cup {"<"})),
                     NCh(Space \cup {"<", ".", ",", ":", ";", DQ, "'", ")", "]"})>>))>>)
Link_R ==
  Cat(<<Bol, C("["), Grp(1, LINK_INSIDE), C("]"), C("("), LINK_HREF_AND_TITLE, C(")")>>)
Image_R ==
  Cat(<<Bol, C("!"), C("["), Grp(1, LINK_INSIDE), C("]"), C("("), LINK_HREF_AND_TITLE, C(")")>>)
RefLink_R ==
  Cat(<<Bol, C("["), Grp(1, LINK_INSIDE), C("]"), Star(Ch(Space)),
        C("["), Grp(2, Star(NCh({"]"}))), C("]")>>)
RefImage_R ==
  Cat(<<Bol, C("!"), C("["), Grp(1, LINK_INSIDE), C("]"), Star(Ch(Space)),
        C("["), Grp(2, Star(NCh({"]"}))), C("]")>>)
Em_R ==
  Alt(<<Cat(<<Bol, WordB, C("_"),
              Grp(1, LazyPlus(Alt(<<Lit(<<"_", "_">>), Cat(<<C(BSL), AnyCh>>),
                                    NCh({BSL, "_"})>>))),
              C("_"), WordB>>),
        Cat(<<Bol, C("*"), LookAhead(NCh(Space)),
              Grp(2, LazyPlus(Alt(<<Lit(<<"*", "*">>),
                                    Cat(<<C(BSL), AnyCh>>),
                                    Cat(<<Plus(Ch(Space)),
                                          Alt(<<Cat(<<C(BSL), AnyCh>>),
                                                NCh(Space \cup {"*", BSL}),
                                                Lit(<<"*", "*">>)>>)>>),
                                    NCh(Space \cup {"*", BSL})>>))),
              C("*"), NotAhead(C("*"))>>)>>)
\* Strong.match with one asterisk on each side instead of two
Strong_R_one_star ==
  Cat(<<Bol, C("*"),
        Grp(1, LazyPlus(Alt(<<Cat(<<C(BSL), AnyCh>>), NCh({BSL})>>))),
        C("*"), NotAhead(C("*"))>>)

\* the regular expressions of two rules that are not in default_rules and
\* that a program puts in the rule map it gives to parser_for: seek, whose
\* match is re.search('b', source), without ^, and pair, whose match is
\* any_scope_regex('^ab') and whose parse returns a list of two text nodes
Seek_R == C("b")
Pair_R == Cat(<<Bol, C("a"), C("b")>>)

Strong_R ==
  Cat(<<Bol, Lit(<<"*", "*">>),
        Grp(1, LazyPlus(Alt(<<Cat(<<C(BSL), AnyCh>>), NCh({BSL})>>))),
        Lit(<<"*", "*">>), NotAhead(C("*"))>>)
U_R ==
  Cat(<<Bol, Lit(<<"_", "_">>),
        Grp(1, LazyPlus(Alt(<<Cat(<<C(BSL), AnyCh>>), NCh({BSL})>>))),
        Lit(<<"_", "_">>), NotAhead(C("_"))>>)
Del_R ==
  Cat(<<Bol, Lit(<<"~", "~">>), LookAhead(NCh(Space)),
        Grp(1, LazyPlus(Alt(<<Cat(<<C(BSL), AnyCh>>),
                              Cat(<<C("~"), NotAhead(C("~"))>>),
                              NCh(Space \cup {"~"}),
                              Cat(<<Ch(Space), NotAhead(Lit(<<"~", "~">>))>>)>>))),
        Lit(<<"~", "~">>)>>)
InlineCode_R ==
  Cat(<<Bol, Grp(1, Plus(C(BT))), Grp(2, Cat(<<LazyStar(AnyCh), NCh({BT})>>)),
        BackRef(1), NotAhead(C(BT))>>)
Br_R == Cat(<<Bol, Rep(C(SP), 2, Inf, FALSE), C(NL)>>)
\* Text.match with [\s\S]*? for [\s\S]+?: the text it takes may be empty
Text_R_or_nothing ==
  Cat(<<Bol, LazyStar(AnyCh),
        LookAhead(Alt(<<NotAlnumSpace, Lit(<<NL, NL>>),
                        Cat(<<Rep(C(SP), 2, Inf, FALSE), C(NL)>>),
                        Cat(<<Plus(Ch(Word)), C(":"), NCh(Space)>>),
                        Eol>>))>>)

\* Text.match without the end of the source in its lookahead: a text that
\* runs to the end of the source is not matched
Text_R_no_end ==
  Cat(<<Bol, LazyPlus(AnyCh),
        LookAhead(Alt(<<NotAlnumSpace, Lit(<<NL, NL>>),
                        Cat(<<Rep(C(SP), 2, Inf, FALSE), C(NL)>>),
                        Cat(<<Plus(Ch(Word)), C(":"), NCh(Space)>>)>>))>>)

\* the model's alphabet has no character in À-￿
Text_R ==
  Cat(<<Bol, LazyPlus(AnyCh),
        LookAhead(Alt(<<NotAlnumSpace, Lit(<<NL, NL>>),
                        Cat(<<Rep(C(SP), 2, Inf, FALSE), C(NL)>>),
                        Cat(<<Plus(Ch(Word)), C(":"), NCh(Space)>>),
                        Eol>>))>>)

(***************************************************************************)
(* Text helpers: pattern.sub, pattern.finditer, str.strip, str.split.      *)
(***************************************************************************)
\* source[n:]
Drop(s, n) == SubSeq(s, n + 1, Len(s))

\* SANITIZE_TEXT_CODES[c] for the characters SANITIZE_TEXT_R matches
SANITIZE_TEXT_CODES(c) ==
  CASE c = "<" -> <<"&", "l", "t", ";">>
    [] c = ">" -> <<"&", "g", "t", ";">>
    [] c = "&" -> <<"&", "a", "m", "p", ";">>
    [] c = DQ -> <<"&", "q", "u", "o", "t", ";">>
    [] c = "'" -> <<"&", "#", "x", "2", "7", ";">>
    [] c = "/" -> <<"&", "#", "x", "2", "F", ";">>
    [] c = BT -> <<"&", "#", "9", "6", ";">>

\* the replacement of one match: a fixed text, a group (r'\1', '' when the
\* group did not take part), or the SANITIZE_TEXT_CODES lambda
ReplLit(v) == [k |-> "lit", v |-> v]
ReplGroup(n) == [k |-> "grp", n |-> n]
ReplCode == [k |-> "code"]
Expand(repl, m, s, i) ==
  CASE repl.k = "lit" -> repl.v
    [] repl.k = "grp" -> IF m.g[repl.n][1] # 0
                         THEN SubSeq(s, m.g[repl.n][1], m.g[repl.n][2] - 1) ELSE <<>>
    [] repl.k = "code" -> SANITIZE_TEXT_CODES(s[i])

\* the least number of hits, none if there is none
LeastOr(hits, none) == IF hits = {} THEN none ELSE Least(hits)

\* the least position from i on where re matches, 0 if there is none
NextMatch(re, s, i) == LeastOr({j \in i..(Len(s) + 1) : MatchAt(re, s, j).ok}, 0)

RECURSIVE SubFrom(_, _, _, _, _)
\* the replacement of the match m at j and the rest of the substitution: after
\* an empty match the character at j is kept
SubRest(re, repl, s, j, less, m) ==
  Expand(repl, m, s, j)
  \o (IF m.e > j THEN SubFrom(re, repl, s, m.e, less)
      ELSE IF j > Len(s) THEN <<>>
      ELSE <<s[j]>> \o SubFrom(re, repl, s, j + 1, less))

\* the substitution from i on when the next match is at j (0: there is none)
SubAt(re, repl, s, i, count, j) ==
  IF count = 0 \/ i > Len(s) + 1 \/ j = 0 THEN SubSeq(s, i, Len(s))
  ELSE SubSeq(s, i, j - 1)
       \o SubRest(re, repl, s, j, IF count = Inf THEN Inf ELSE count - 1, MatchAt(re, s, j))

\* the rest of pattern.sub(repl, s, count) from position i on; count = Inf is
\* count = 0 of Python (replace all)
SubFrom(re, repl, s, i, count) == SubAt(re, repl, s, i, count, NextMatch(re, s, i))

\* pattern.sub(repl, s)
ReSub(re, repl, s) == SubFrom(re, repl, s, 1, Inf)
\* pattern.sub(repl, s, count=n)
ReSubCount(re, repl, s, n) == SubFrom(re, repl, s, 1, n)

RECURSIVE FindFrom(_, _, _)
\* the match m at j and the matches after it
FindRest(re, s, j, m) ==
  IF m.e > j THEN <<SubSeq(s, j, m.e - 1)>> \o FindFrom(re, s, m.e)
  ELSE <<<<>>>> \o FindFrom(re, s, j + 1)

\* the matches from i on when the next is at j (0: there is none)
FindAt(re, s, i, j) ==
  IF i > Len(s) + 1 \/ j = 0 THEN <<>> ELSE FindRest(re, s, j, MatchAt(re, s, j))

\* [m[0] for m in pattern.finditer(s)] from position i on
FindFrom(re, s, i) == FindAt(re, s, i, NextMatch(re, s, i))
FindAll(re, s) == FindFrom(re, s, 1)

\* str.strip()
Strip(s) ==
  LET keep == {i \in DOMAIN s : s[i] \notin Space}
  IN IF keep = {} THEN <<>>
     ELSE SubSeq(s, CHOOSE i \in keep : \A m \in keep : i <= m,
                    CHOOSE i \in keep : \A m \in keep : i >= m)

\* str.split(c)
Split(s, c) ==
  LET at == {i \in DOMAIN s : s[i] = c}
      \* the end of piece k: the k-th c, or the end of s
      cut(k) == IF k = 0 THEN 0
                ELSE IF k > Cardinality(at) THEN Len(s) + 1
                ELSE CHOOSE i \in at : Cardinality({j \in at : j < i}) = k - 1
  IN [k \in 1..(Cardinality(at) + 1) |-> SubSeq(s, cut(k - 1) + 1, cut(k) - 1)]

\* '\n\n' in content
HasBlankLine(s) == \E i \in 1..(Len(s) - 1) : s[i] = NL /\ s[i + 1] = NL

(***************************************************************************)
(* preprocess, sanitize_text, sanitize_url, unescape_url, html_tag.        *)
(***************************************************************************)
\* preprocess with every substitution made once only, as pattern.sub(repl,
\* source, count=1) makes it
preprocess_first_only(source) ==
  ReSubCount(TAB_R, ReplLit(<<NL>>),
             ReSubCount(FORMFEED_R, ReplLit(<<>>),
                        ReSubCount(CR_NEWLINE_R, ReplLit(<<SP, SP, SP, SP>>), source, 1), 1), 1)

preprocess(source) ==
  ReSub(TAB_R, ReplLit(<<NL>>),
        ReSub(FORMFEED_R, ReplLit(<<>>),
              ReSub(CR_NEWLINE_R, ReplLit(<<SP, SP, SP, SP>>), source)))

sanitize_text(text) == ReSub(SANITIZE_TEXT_R, ReplCode, text)

unescape_url(raw_url_string) == ReSub(UNESCAPE_URL_R, ReplGroup(1), raw_url_string)

(***************************************************************************)
(* The rule table and parser_for's rule list.                              *)
(***************************************************************************)
\* default_rules in insertion order: each rule's name (and its characters, for
\* the comparison of names), the order its constructor received from the
\* current_order counter, whether its class defines quality, and whether it
\* has a match attribute (class Rule defines one, so every rule has)
default_rules == <<
  [name |-> "Array", chars |-> <<"A", "r", "r", "a", "y">>, order |-> 0, quality |-> FALSE, match |-> TRUE],
  [name |-> "heading", chars |-> <<"h", "e", "a", "d", "i", "n", "g">>, order |-> 0, quality |-> FALSE, match |-> TRUE],
  [name |-> "nptable", chars |-> <<"n", "p", "t", "a", "b", "l", "e">>, order |-> 1, quality |-> FALSE, match |-> TRUE],
  [name |-> "lheading", chars |-> <<"l", "h", "e", "a", "d", "i", "n", "g">>, order |-> 2, quality |-> FALSE, match |-> TRUE],
  [name |-> "hr", chars |-> <<"h", "r">>, order |-> 3, quality |-> FALSE, match |-> TRUE],
  [name |-> "codeBlock", chars |-> <<"c", "o", "d", "e", "B", "l", "o", "c", "k">>, order |-> 4, quality |-> FALSE, match |-> TRUE],
  [name |-> "fence", chars |-> <<"f", "e", "n", "c", "e">>, order |-> 5, quality |-> FALSE, match |-> TRUE],
  [name |-> "blockQuote", chars |-> <<"b", "l", "o", "c", "k", "Q", "u", "o", "t", "e">>, order |-> 6, quality |-> FALSE, match |-> TRUE],
  [name |-> "list", chars |-> <<"l", "i", "s", "t">>, order |-> 7, quality |-> FALSE, match |-> TRUE],
  [name |-> "def", chars |-> <<"d", "e", "f">>, order |-> 8, quality |-> FALSE, match |-> TRUE],
  [name |-> "table", chars |-> <<"t", "a", "b", "l", "e">>, order |-> 9, quality |-> FALSE, match |-> TRUE],
  [name |-> "newline", chars |-> <<"n", "e", "w", "l", "i", "n", "e">>, order |-> 10, quality |-> FALSE, match |-> TRUE],
  [name |-> "paragraph", chars |-> <<"p", "a", "r", "a", "g", "r", "a", "p", "h">>, order |-> 11, quality |-> FALSE, match |-> TRUE],
  [name |-> "escape", chars |-> <<"e", "s", "c", "a", "p", "e">>, order |-> 12, quality |-> FALSE, match |-> TRUE],
  [name |-> "tableSeparator", chars |-> <<"t", "a", "b", "l", "e", "S", "e", "p", "a", "r", "a", "t", "o", "r">>, order |-> 13, quality |-> FALSE, match |-> TRUE],
  [name |-> "autolink", chars |-> <<"a", "u", "t", "o", "l", "i", "n", "k">>, order |-> 14, quality |-> FALSE, match |-> TRUE],
  [name |-> "mailto", chars |-> <<"m", "a", "i", "l", "t", "o">>, order |-> 15, quality |-> FALSE, match |-> TRUE],
  [name |-> "url", chars |-> <<"u", "r", "l">>, order |-> 16, quality |-> FALSE, match |-> TRUE],
  [name |-> "link", chars |-> <<"l", "i", "n", "k">>, order |-> 17, quality |-> FALSE, match |-> TRUE],
  [name |-> "image", chars |-> <<"i", "m", "a", "g", "e">>, order |-> 18, quality |-> FALSE, match |-> TRUE],
  [name |-> "reflink", chars |-> <<"r", "e", "f", "l", "i", "n", "k">>, order |-> 19, quality |-> FALSE, match |-> TRUE],
  [name |-> "refimage", chars |-> <<"r", "e", "f", "i", "m", "a", "g", "e">>, order |-> 20, quality |-> FALSE, match |-> TRUE],
  [name |-> "em", chars |-> <<"e", "m">>, order |-> 21, quality |-> TRUE, match |-> TRUE],
  [name |-> "strong", chars |-> <<"s", "t", "r", "o", "n", "g">>, order |-> 21, quality |-> TRUE, match |-> TRUE],
  [name |-> "u", chars |-> <<"u">>, order |-> 21, quality |-> TRUE, match |-> TRUE],
  [name |-> "del", chars |-> <<"d", "e", "l">>, order |-> 22, quality |-> FALSE, match |-> TRUE],
  [name |-> "inlineCode", chars |-> <<"i", "n", "l", "i", "n", "e", "C", "o", "d", "e">>, order |-> 23, quality |-> FALSE, match |-> TRUE],
  [name |-> "br", chars |-> <<"b", "r">>, order |-> 24, quality |-> FALSE, match |-> TRUE],
  [name |-> "text", chars |-> <<"t", "e", "x", "t">>, order |-> 25, quality |-> FALSE, match |-> TRUE]
>>

\* rules[rule_type]
RuleOf(rules, rule_type) ==
  rules[CHOOSE i \in DOMAIN rules : rules[i].name = rule_type]

\* a < b on str: code point order, restricted to letters
CharRank(c) ==
  IF \E i \in DOMAIN UpperSeq : UpperSeq[i] = c
  THEN CHOOSE i \in DOMAIN UpperSeq : UpperSeq[i] = c
  ELSE Len(UpperSeq) + (CHOOSE i \in DOMAIN LowerSeq : LowerSeq[i] = c)
RECURSIVE StrLess(_, _)
StrLess(a, b) ==
  IF b = <<>> THEN FALSE
  ELSE IF a = <<>> THEN TRUE
  ELSE IF Head(a) = Head(b) THEN StrLess(Tail(a), Tail(b))
  ELSE CharRank(Head(a)) < CharRank(Head(b))

\* filter_rules: a rule without match is left out; a rule whose order is not a
\* number is reported and kept
filter_rules(rule) == rule.match

\* sort_rules, the comparison function of rule_list.sort
sort_rules(rule_a, rule_b) ==
  LET secondary_order_a == IF rule_a.quality THEN 0 ELSE 1
      secondary_order_b == IF rule_b.quality THEN 0 ELSE 1
  IN IF rule_a.order # rule_b.order THEN rule_a.order - rule_b.order
     ELSE IF secondary_order_a # secondary_order_b
       THEN secondary_order_a - secondary_order_b
     ELSE IF StrLess(rule_a.chars, rule_b.chars) THEN 0 - 1
     ELSE IF StrLess(rule_b.chars, rule_a.chars) THEN 1
     ELSE 0

RECURSIVE InsertSorted(_, _)
\* list.sort is stable: an element goes after the elements it does not precede
InsertSorted(sorted, rule) ==
  IF sorted = <<>> THEN <<rule>>
  ELSE IF sort_rules(rule, Head(sorted)) < 0 THEN <<rule>> \o sorted
  ELSE <<Head(sorted)>> \o InsertSorted(Tail(sorted), rule)
RECURSIVE SortRules(_)
SortRules(rs) ==
  IF rs = <<>> THEN <<>>
  ELSE InsertSorted(SortRules(SubSeq(rs, 1, Len(rs) - 1)), rs[Len(rs)])

\* rule_list of parser_for(rules): the rules filter_rules keeps, sorted
RuleList(rules) == SortRules(SelectSeq(rules, filter_rules))

\* the rule list of default_raw_parse = parser_for(default_rules)
rule_list == RuleList(default_rules)

(***************************************************************************)
(* Rule maps a program gives to parser_for and output_for.  A rule of such *)
(* a map is a record like those of default_rules; it may also say what its *)
(* html and react attributes are ("method", "None" for an attribute set to *)
(* None, "absent" for an object without the attribute) and of what type    *)
(* its order is.  A record without these fields is an instance of a        *)
(* subclass of Rule with a number as order: Rule defines every method.     *)
(***************************************************************************)
\* rules.get(rule_type) is not None
HasRule(rules, rule_type) == \E i \in DOMAIN rules : rules[i].name = rule_type

\* what getattr(rule, property) finds
Attr(rule, property) == IF property \in DOMAIN rule THEN rule[property] ELSE "method"

\* isinstance(rule.order, numbers.Number); the order field of a rule whose
\* order is no number holds a stand-in that no comparison reads
OrderIsNumber(rule) == "order_type" \notin DOMAIN rule \/ rule.order_type = "int"

\* the rules filter_rules prints 'Invalid order for rule' for
Warned(rules) ==
  LET bad == SelectSeq(rules, LAMBDA rule : rule.match /\ ~OrderIsNumber(rule))
  IN <<>> \o [i \in DOMAIN bad |-> bad[i].name]

\* parser_for(rules), lines 28-60: the rule list, and the TypeError of
\* order_a - order_b when rule_list.sort compares a rule whose order is a
\* str or None with another rule (every element of a list of two or more
\* is compared at least once)
parser_for(rules) ==
  LET kept == SelectSeq(rules, filter_rules)
  IN IF Len(kept) >= 2 /\ \E i \in DOMAIN kept : ~OrderIsNumber(kept[i])
     THEN [ok |-> FALSE, err |-> "TypeError", rules |-> rules, rule_list |-> <<>>,
           warned |-> Warned(rules)]
     ELSE [ok |-> TRUE, err |-> "None", rules |-> rules,
           rule_list |-> <<>> \o [i \in DOMAIN kept |-> SortRules(kept)[i].name],
           warned |-> Warned(rules)]

\* default_raw_parse = parser_for(default_rules)
default_raw_parse == parser_for(default_rules)

\* rules[rule_type] for the rule types of the rule list of parser p
ActiveRules(p) ==
  <<>> \o [i \in DOMAIN p.rule_list |-> RuleOf(p.rules, p.rule_list[i])]

\* output_for(rules, property) up to its return of outer_output: the
\* exception it raises, or the Array rule whose renderer joins the lists
\* ("rules" for the one of the map given, "default_rules" for the module's)
output_for(rules, property) ==
  IF property = ""
  THEN [ok |-> FALSE, err |-> "Exception", rules |-> rules, property |-> property,
        array_rule |-> "None"]
  ELSE LET array_rule == IF HasRule(rules, "Array") THEN RuleOf(rules, "Array")
                         ELSE RuleOf(default_rules, "Array")
           array_rule_check == Attr(array_rule, property)
       IN [ok |-> array_rule_check = "method",
           err |-> CASE array_rule_check = "absent" -> "AttributeError"
                     [] array_rule_check = "None" -> "Exception"
                     [] OTHER -> "None",
           rules |-> rules, property |-> property,
           array_rule |-> IF array_rule_check # "method" THEN "None"
                          ELSE IF HasRule(rules, "Array") THEN "rules"
                          ELSE "default_rules"]

\* default_html_output = output_for(default_rules, 'html') as a constructed
\* output function
DefaultHtmlOutput == output_for(default_rules, "html")

(***************************************************************************)
(* Parse state, captures and the match functions of the rules.             *)
(***************************************************************************)
\* a new dict as parse state: state.get(key) is None for every key
NewState ==
  [inline |-> PyNone, _list |-> PyNone, in_table |-> PyNone,
   previous_capture |-> PyNone, _defs |-> PyNone, _refs |-> PyNone]

NoCapture == [ok |-> FALSE]
\* the match object of re.match(regex, s): c[0] the whole match, c[n] group n
\* (None when the group took no part), pos the position the search began at
\* (the pos argument, which no call gives: 0), start the position the match
\* begins at (m.start())
Capture(m, s) ==
  IF m.ok
  THEN [ok |-> TRUE, pos |-> 0, start |-> 0,
        c |-> [n \in 0..3 |-> IF GroupSet(m, n) THEN PyStr(Group(m, s, n)) ELSE PyNone]]
  ELSE NoCapture

\* the match object of re.search(regex, s): the first match from any position
SearchCaptureOf(m, s, j) ==
  [ok |-> TRUE, pos |-> 0, start |-> j - 1,
   c |-> [n \in 0..3 |-> IF n = 0 THEN PyStr(SubSeq(s, j, m.e - 1))
                          ELSE IF GroupSet(m, n) THEN PyStr(Group(m, s, n)) ELSE PyNone]]
SearchCaptureAt(re, s, j) ==
  IF j = 0 THEN NoCapture ELSE SearchCaptureOf(MatchAt(re, s, j), s, j)
SearchCapture(re, s) == SearchCaptureAt(re, s, NextMatch(re, s, 1))

inline_regex(regex, source, state) ==
  IF Truthy(state.inline) THEN Capture(ReMatch(regex, source), source) ELSE NoCapture

\* block_regex without the test of state['inline']
block_regex_any_mode(regex, source, state) == Capture(ReMatch(regex, source), source)

block_regex(regex, source, state) ==
  IF Truthy(state.inline) THEN NoCapture ELSE Capture(ReMatch(regex, source), source)

any_scope_regex(regex, source, state) == Capture(ReMatch(regex, source), source)

\* previous_capture_string of nested_parse and of List.match
PreviousCaptureString(state) ==
  IF IsNone(state.previous_capture) THEN <<>> ELSE state.previous_capture.c[0].str

List_match(source, state) ==
  LET previous_capture_string == PreviousCaptureString(state)
      is_start_of_line_capture == ReMatch(LIST_LOOKBEHIND_R, previous_capture_string)
      is_list_block == Truthy(state._list) \/ ~Truthy(state.inline)
  IN IF is_start_of_line_capture.ok /\ is_list_block
     THEN LET src == Group(is_start_of_line_capture, previous_capture_string, 1) \o source
          IN Capture(ReMatch(LIST_R, src), src)
     ELSE NoCapture

TableSeparator_match(source, state) ==
  IF ~Truthy(state.in_table) THEN NoCapture
  ELSE Capture(ReMatch(TableSeparator_R, source), source)

\* rules[rule_type].match(source, state, previous_capture_string); Array keeps
\* Rule.match, which returns None
RuleMatch(rule_type, source, state) ==
  CASE rule_type = "Array" -> NoCapture
    [] rule_type = "heading" -> block_regex(Heading_R, source, state)
    [] rule_type = "nptable" -> block_regex(NPTABLE_REGEX, source, state)
    [] rule_type = "lheading" -> block_regex(LHeading_R, source, state)
    [] rule_type = "hr" -> block_regex(HR_R, source, state)
    [] rule_type = "codeBlock" -> block_regex(CodeBlock_R, source, state)
    [] rule_type = "fence" -> block_regex(Fence_R, source, state)
    [] rule_type = "blockQuote" -> block_regex(BlockQuote_R, source, state)
    [] rule_type = "list" -> List_match(source, state)
    [] rule_type = "def" -> block_regex(Def_R, source, state)
    [] rule_type = "table" -> block_regex(TABLE_REGEX, source, state)
    [] rule_type = "newline" -> block_regex(NewLine_R, source, state)
    [] rule_type = "paragraph" -> block_regex(Paragraph_R, source, state)
    [] rule_type = "escape" -> inline_regex(Escape_R, source, state)
    [] rule_type = "tableSeparator" -> TableSeparator_match(source, state)
    [] rule_type = "autolink" -> inline_regex(AutoLink_R, source, state)
    [] rule_type = "mailto" -> inline_regex(MailTo_R, source, state)
    [] rule_type = "url" -> inline_regex(URL_R, source, state)
    [] rule_type = "link" -> inline_regex(Link_R, source, state)
    [] rule_type = "image" -> inline_regex(Image_R, source, state)
    [] rule_type = "reflink" -> inline_regex(RefLink_R, source, state)
    [] rule_type = "refimage" -> inline_regex(RefImage_R, source, state)
    [] rule_type = "em" -> inline_regex(Em_R, source, state)
    [] rule_type = "strong" -> inline_regex(Strong_R, source, state)
    [] rule_type = "u" -> inline_regex(U_R, source, state)
    [] rule_type = "del" -> inline_regex(Del_R, source, state)
    [] rule_type = "inlineCode" -> inline_regex(InlineCode_R, source, state)
    [] rule_type = "br" -> any_scope_regex(Br_R, source, state)
    [] rule_type = "text" -> any_scope_regex(Text_R, source, state)
    [] rule_type = "seek" -> SearchCapture(Seek_R, source)
    [] rule_type = "pair" -> any_scope_regex(Pair_R, source, state)

\* ten times rules[rule_type].quality(capture, ...), or 0 without a quality
\* function: Em len + 0.2, Strong len + 0.1, U len
RuleQuality(rule_type, capture) ==
  CASE rule_type = "em" -> 10 * Len(capture.c[0].str) + 2
    [] rule_type = "strong" -> 10 * Len(capture.c[0].str) + 1
    [] rule_type = "u" -> 10 * Len(capture.c[0].str)
    [] OTHER -> 0

(***************************************************************************)
(* The rule scan of one parse-loop iteration of nested_parse.              *)
(***************************************************************************)
\* rule_type = None, capture = None, quality = -1 (times ten)
NoSelection(order) ==
  [rule_type |-> "None", capture |-> NoCapture, quality |-> 0 - 10,
   current_order |-> order, tried |-> <<>>]

RECURSIVE Scan(_, _, _, _, _)
\* the end of the turn with every capture adopted, whatever its quality
ScanAdopt_last_match(rl, i, j, sel, source, state, current_capture, current_quality) ==
  Scan(rl, j + 1,
       IF current_capture.ok
       THEN [rule_type |-> rl[j].name, capture |-> current_capture,
             quality |-> current_quality, current_order |-> rl[j].order,
             tried |-> sel.tried \o [m \in 1..(j - i + 1) |-> rl[i + m - 1].name]]
       ELSE [sel EXCEPT !.current_order = rl[j].order,
                        !.tried = @ \o [m \in 1..(j - i + 1) |-> rl[i + m - 1].name]],
       source, state)

\* the end of the turn without current_order = current_rule.order (line 84):
\* the global keeps the value it had when the iteration started
ScanAdopt_order_kept(rl, i, j, sel, source, state, current_capture, current_quality) ==
  Scan(rl, j + 1,
       IF current_capture.ok /\ ~(current_quality <= sel.quality)
       THEN [rule_type |-> rl[j].name, capture |-> current_capture,
             quality |-> current_quality, current_order |-> sel.current_order,
             tried |-> sel.tried \o [m \in 1..(j - i + 1) |-> rl[i + m - 1].name]]
       ELSE [sel EXCEPT !.tried = @ \o [m \in 1..(j - i + 1) |-> rl[i + m - 1].name]],
       source, state)

\* the end of the turn of rule rl[j]: the capture is adopted if its quality is
\* above that of the selection (lines 95-100), and the loop goes on
ScanAdopt(rl, i, j, sel, source, state, current_capture, current_quality) ==
  Scan(rl, j + 1,
       IF current_capture.ok /\ ~(current_quality <= sel.quality)
       THEN [rule_type |-> rl[j].name, capture |-> current_capture,
             quality |-> current_quality, current_order |-> rl[j].order,
             tried |-> sel.tried \o [m \in 1..(j - i + 1) |-> rl[i + m - 1].name]]
       ELSE [sel EXCEPT !.current_order = rl[j].order,
                        !.tried = @ \o [m \in 1..(j - i + 1) |-> rl[i + m - 1].name]],
       source, state)

\* the turn of rule rl[j], whose match returned current_capture
ScanTurn(rl, i, j, sel, source, state, current_capture) ==
  ScanAdopt(rl, i, j, sel, source, state, current_capture,
            IF rl[j].quality THEN RuleQuality(rl[j].name, current_capture) ELSE 0)

\* the turns of the rules from i to j, of which none before j matches
ScanTo(rl, i, j, sel, source, state) ==
  ScanTurn(rl, i, j, sel, source, state, RuleMatch(rl[j].name, source, state))

\* the inner while loop from index i (i = 1 is Python's i = 0): sel is the
\* selection so far, sel.current_order the global current_order, sel.tried the
\* rules whose match was called.  While there is no capture the loop goes
\* over every rule whose match returns None: these turns are taken at once,
\* up to the first rule from i on that matches (or the last rule)
Scan(rl, i, sel, source, state) ==
  IF i = 1 \/ (i <= Len(rl)
               /\ (~sel.capture.ok
                   \/ (rl[i].order = sel.current_order /\ rl[i].quality)))
  THEN ScanTo(rl, i,
              IF sel.capture.ok THEN i
              ELSE LeastOr({m \in i..Len(rl) : RuleMatch(rl[m].name, source, state).ok},
                           Len(rl)),
              sel, source, state)
  ELSE sel

(***************************************************************************)
(* The parse functions of the rules.  A parse function either returns a    *)
(* node (Done) or calls nested_parse on a piece of text (CallParse) and    *)
(* goes on, in Resume, from the frame it left, with the list returned.     *)
(* A reference node, which Def.parse changes after it was put in the tree, *)
(* lives in the heap; the tree holds [ptr |-> its index].                  *)
(***************************************************************************)
Done(node, state, heap) == [k |-> "node", node |-> node, state |-> state, heap |-> heap]
CallParse(frame, source, state, heap) ==
  [k |-> "call", frame |-> frame, source |-> source, state |-> state, heap |-> heap]

IsPtr(node) == "ptr" \in DOMAIN node
\* node['type']
TypeOf(node, heap) == IF IsPtr(node) THEN heap[node.ptr].type ELSE node.type

\* a or b
PyOr(a, b) == IF Truthy(a) THEN a ELSE b

DigitSeq == <<"0", "1", "2", "3", "4", "5", "6", "7", "8", "9">>
DigitVal(c) == (CHOOSE n \in DOMAIN DigitSeq : DigitSeq[n] = c) - 1
RECURSIVE StrToInt(_)
\* int(s) for a run of digits
StrToInt(s) ==
  IF s = <<>> THEN 0 ELSE 10 * StrToInt(SubSeq(s, 1, Len(s) - 1)) + DigitVal(s[Len(s)])

\* re.sub(r'\s+', ' ', name).lower() of parse_ref and Def.parse
NormalizeRef(name) == Lower(ReSub(WHITESPACE_R, ReplLit(<<SP>>), name))

\* d.get(k, default) on a PyDict or None
DictHas(d, k) == ~IsNone(d) /\ k \in DOMAIN d.dict

\* parse_ref without lines 373-376: the node of a reference is recorded and
\* not given the target and title of the definition that came before it
parse_ref_unresolved(capture, state, heap, ref_node) ==
  LET ref == NormalizeRef(PyOr(capture.c[2], capture.c[1]).str)
      refs0 == IF IsNone(state._refs) THEN EmptyDict ELSE state._refs.dict
      before == IF ref \in DOMAIN refs0 THEN refs0[ref] ELSE <<>>
      id == Len(heap) + 1
  IN Done([ptr |-> id],
          [state EXCEPT !._refs = PyDict(SetField(refs0, ref, Append(before, id)))],
          Append(heap, ref_node))

parse_ref(capture, state, heap, ref_node) ==
  LET ref == NormalizeRef(PyOr(capture.c[2], capture.c[1]).str)
      resolved == Truthy(state._defs) /\ DictHas(state._defs, ref)
      node == IF resolved
              THEN SetField(SetField(ref_node, "target", state._defs.dict[ref].target),
                            "title", state._defs.dict[ref].title)
              ELSE ref_node
      refs0 == IF IsNone(state._refs) THEN EmptyDict ELSE state._refs.dict
      before == IF ref \in DOMAIN refs0 THEN refs0[ref] ELSE <<>>
      id == Len(heap) + 1
  IN Done([ptr |-> id],
          [state EXCEPT !._refs = PyDict(SetField(refs0, ref, Append(before, id)))],
          Append(heap, node))

\* Def.parse without lines 689-692: the definition is recorded, the
\* references that wait for it are left as they are
Def_parse_no_backpatch(capture, state, heap) ==
  Done([def |-> PyStr(NormalizeRef(capture.c[1].str)), target |-> capture.c[2],
        title |-> capture.c[3]],
       [state EXCEPT !._defs =
          PyDict(SetField(IF IsNone(state._defs) THEN EmptyDict ELSE state._defs.dict,
                          NormalizeRef(capture.c[1].str),
                          [target |-> capture.c[2], title |-> capture.c[3]]))],
       heap)

Def_parse(capture, state, heap) ==
  LET def == NormalizeRef(capture.c[1].str)
      target == capture.c[2]
      title == capture.c[3]
      waiting == IF Truthy(state._refs) /\ DictHas(state._refs, def)
                 THEN {state._refs.dict[def][i] : i \in DOMAIN state._refs.dict[def]}
                 ELSE {}
      defs0 == IF IsNone(state._defs) THEN EmptyDict ELSE state._defs.dict
  IN Done([def |-> PyStr(def), target |-> target, title |-> title],
          [state EXCEPT !._defs =
             PyDict(SetField(defs0, def, [target |-> target, title |-> title]))],
          [id \in DOMAIN heap |->
             IF id \in waiting
             THEN SetField(SetField(heap[id], "target", target), "title", title)
             ELSE heap[id]])

\* parse_inline that leaves state['inline'] set when it returns
parse_inline_left_inline(node, content, state, heap) ==
  CallParse([k |-> "parse_inline", is_currently_inline |-> PyBool(TRUE), node |-> node],
            content, [state EXCEPT !.inline = PyBool(TRUE)], heap)

\* parse_inline up to its call of parse: node is the dict the content goes in
parse_inline(node, content, state, heap) ==
  CallParse([k |-> "parse_inline", is_currently_inline |-> state.inline, node |-> node],
            content, [state EXCEPT !.inline = PyBool(TRUE)], heap)

\* a rule that calls parse(content, state) and puts the list in node
parse_content(node, content, state, heap) ==
  CallParse([k |-> "content", node |-> node], content, state, heap)

MailTo_target(address) ==
  IF ReMatch(AUTOLINK_MAILTO_CHECK_R, address).ok THEN address
  ELSE <<"m", "a", "i", "l", "t", "o", ":">> \o address

\* content of content_map (lines 611-615): the item without its bullet
List_content(item) ==
  LET prefix_capture == ReMatch(LIST_ITEM_PREFIX_R, item)
      space == IF prefix_capture.ok THEN Len(Group(prefix_capture, item, 0)) ELSE 0
      \* re.sub(space_regex, '', item, re.MULTILINE): the fourth argument is count
      space_regex == Cat(<<Bol, Rep(C(SP), 1, space, FALSE)>>)
  IN ReSubCount(LIST_ITEM_PREFIX_R, ReplLit(<<>>),
                ReSubCount(space_regex, ReplLit(<<>>), item, 8), 1)

\* content_map of List.parse with this_item_is_a_paragraph = contains_blocks:
\* the last item does not follow the item before it
List_item_no_contagion(frame, state, heap) ==
  IF frame.i > Len(frame.items)
  THEN Done([ordered |-> PyBool(frame.ordered), start |-> frame.start,
             items |-> PyList(frame.item_content)], state, heap)
  ELSE
    LET content == List_content(frame.items[frame.i])
        this_item_is_a_paragraph == HasBlankLine(content)
        adjusted_content ==
          IF this_item_is_a_paragraph
          THEN ReSubCount(LIST_ITEM_END_R, ReplLit(<<NL, NL>>), content, 1)
          ELSE ReSubCount(LIST_ITEM_END_R, ReplLit(<<>>), content, 1)
    IN CallParse([frame EXCEPT !.last_item_was_a_paragraph = this_item_is_a_paragraph,
                               !.old_state_inline = state.inline,
                               !.old_state_list = state._list],
                 adjusted_content,
                 [state EXCEPT !._list = PyBool(TRUE),
                               !.inline = PyBool(~this_item_is_a_paragraph)],
                 heap)

\* content_map of List.parse for item frame.i, or the list node after the last
List_item(frame, state, heap) ==
  IF frame.i > Len(frame.items)
  THEN Done([ordered |-> PyBool(frame.ordered), start |-> frame.start,
             items |-> PyList(frame.item_content)], state, heap)
  ELSE
    LET content == List_content(frame.items[frame.i])
        is_last_item == frame.i = Len(frame.items)
        contains_blocks == HasBlankLine(content)
        this_item_is_a_paragraph ==
          contains_blocks \/ (is_last_item /\ frame.last_item_was_a_paragraph)
        adjusted_content ==
          IF this_item_is_a_paragraph
          THEN ReSubCount(LIST_ITEM_END_R, ReplLit(<<NL, NL>>), content, 1)
          ELSE ReSubCount(LIST_ITEM_END_R, ReplLit(<<>>), content, 1)
    IN CallParse([frame EXCEPT !.last_item_was_a_paragraph = this_item_is_a_paragraph,
                               !.old_state_inline = state.inline,
                               !.old_state_list = state._list],
                 adjusted_content,
                 [state EXCEPT !._list = PyBool(TRUE),
                               !.inline = PyBool(~this_item_is_a_paragraph)],
                 heap)

\* List.parse with the start of an ordered list read from the first digit
\* of the bullet only
List_parse_first_digit(capture, state, heap) ==
  LET bullet == capture.c[2].str
      ordered == Len(bullet) > 1
      start == IF ordered THEN PyInt(DigitVal(bullet[1])) ELSE PyNone
      items == FindAll(LIST_ITEM_R,
                       ReSubCount(LIST_BLOCK_END_R, ReplLit(<<NL>>), capture.c[0].str, 1))
  IN List_item([k |-> "list", ordered |-> ordered, start |-> start, items |-> items,
                i |-> 1, last_item_was_a_paragraph |-> FALSE, item_content |-> <<>>,
                old_state_inline |-> PyNone, old_state_list |-> PyNone],
               state, heap)

List_parse(capture, state, heap) ==
  LET bullet == capture.c[2].str
      ordered == Len(bullet) > 1
      start == IF ordered
               THEN PyInt(StrToInt(ReSub(List_NONDIGIT_R, ReplLit(<<>>), bullet)))
               ELSE PyNone
      items == FindAll(LIST_ITEM_R,
                       ReSubCount(LIST_BLOCK_END_R, ReplLit(<<NL>>), capture.c[0].str, 1))
  IN List_item([k |-> "list", ordered |-> ordered, start |-> start, items |-> items,
                i |-> 1, last_item_was_a_paragraph |-> FALSE, item_content |-> <<>>,
                old_state_inline |-> PyNone, old_state_list |-> PyNone],
               state, heap)

parse_table_align_capture(align_capture) ==
  IF ReMatch(TABLE_RIGHT_ALIGN, align_capture).ok THEN PyStr(<<"r", "i", "g", "h", "t">>)
  ELSE IF ReMatch(TABLE_CENTER_ALIGN, align_capture).ok
    THEN PyStr(<<"c", "e", "n", "t", "e", "r">>)
  ELSE IF ReMatch(TABLE_LEFT_ALIGN, align_capture).ok THEN PyStr(<<"l", "e", "f", "t">>)
  ELSE PyNone

parse_table_align(source, trim_end_separators) ==
  LET src == IF trim_end_separators
             THEN ReSub(TABLE_ROW_SEPARATOR_TRIM, ReplLit(<<>>), source) ELSE source
      align_text == Split(Strip(src), "|")
  IN PyList([i \in DOMAIN align_text |-> parse_table_align_capture(align_text[i])])

RECURSIVE TableCells(_, _, _, _, _)
\* the loop of parse_table_row over table_row from index (1-based) on
TableCells(table_row, index, cells, trim_end_separators, heap) ==
  IF index > Len(table_row) THEN cells
  ELSE
    LET node == table_row[index]
        last == Len(cells)
    IN IF TypeOf(node, heap) = "table_separator"
       THEN TableCells(table_row, index + 1,
                       IF ~trim_end_separators \/ (index # 1 /\ index # Len(table_row))
                       THEN Append(cells, <<>>) ELSE cells,
                       trim_end_separators, heap)
       ELSE
         LET trim == Len(table_row) > index
                     /\ TypeOf(node, heap) = "text"
                     /\ TypeOf(table_row[index + 1], heap) = "table_separator"
             kept == IF trim
                     THEN [node EXCEPT !.content =
                             PyStr(ReSubCount(TABLE_CELL_END_TRIM, ReplLit(<<>>), @.str, 1))]
                     ELSE node
         IN TableCells(table_row, index + 1,
                       [cells EXCEPT ![last] = Append(@, kept)],
                       trim_end_separators, heap)

AsLists(cells) == PyList([i \in DOMAIN cells |-> PyList(cells[i])])

\* parse_table_row up to its call of parse
parse_table_row(frame, source, state, heap) ==
  CallParse([frame EXCEPT !.prev_in_table = state.in_table],
            Strip(source), [state EXCEPT !.in_table = PyBool(TRUE)], heap)

\* inner of parse_table(trim_end_separators)
parse_table(trim_end_separators, capture, state, heap) ==
  parse_table_row([k |-> "table", trim_end_separators |-> trim_end_separators,
                   phase |-> "header", prev_in_table |-> PyNone, header |-> PyNone,
                   rows_text |-> Split(Strip(capture.c[3].str), NL), cells |-> <<>>,
                   align |-> parse_table_align(capture.c[2].str, trim_end_separators)],
                  capture.c[1].str, [state EXCEPT !.inline = PyBool(TRUE)], heap)

\* rules[rule_type].parse(capture, nested_parse, state) up to its first call
\* of nested_parse, or to its end
RuleParse(rule_type, capture, state, heap) ==
  CASE rule_type = "heading" ->
         parse_inline([level |-> PyInt(Len(capture.c[1].str))],
                      Strip(capture.c[2].str), state, heap)
    [] rule_type = "nptable" -> parse_table(FALSE, capture, state, heap)
    [] rule_type = "lheading" ->
         parse_inline([type |-> "heading",
                       level |-> PyInt(IF capture.c[2].str = <<"=">> THEN 1 ELSE 2)],
                      capture.c[1].str, state, heap)
    [] rule_type \in {"hr", "newline", "br"} -> Done(EmptyDict, state, heap)
    [] rule_type = "codeBlock" ->
         Done([lang |-> PyNone,
               content |-> PyStr(ReSub(CodeBlock_END_R, ReplLit(<<>>),
                                       ReSub(CodeBlock_INDENT_R, ReplLit(<<>>),
                                             capture.c[0].str)))],
              state, heap)
    [] rule_type = "fence" ->
         Done([type |-> "codeBlock", lang |-> PyOr(capture.c[2], PyNone),
               content |-> capture.c[3]], state, heap)
    [] rule_type = "blockQuote" ->
         parse_content(EmptyDict,
                       ReSub(BlockQuote_PREFIX_R, ReplLit(<<>>), capture.c[0].str),
                       state, heap)
    [] rule_type = "list" -> List_parse(capture, state, heap)
    [] rule_type = "def" -> Def_parse(capture, state, heap)
    [] rule_type = "table" -> parse_table(TRUE, capture, state, heap)
    [] rule_type \in {"paragraph", "strong", "u", "del"} ->
         parse_inline(EmptyDict, capture.c[1].str, state, heap)
    [] rule_type = "escape" -> Done([type |-> "text", content |-> capture.c[1]], state, heap)
    [] rule_type = "tableSeparator" -> Done([type |-> "table_separator"], state, heap)
    [] rule_type = "autolink" ->
         Done([type |-> "link",
               content |-> PyList(<<[type |-> "text", content |-> capture.c[1]]>>),
               target |-> capture.c[1]], state, heap)
    [] rule_type = "mailto" ->
         Done([type |-> "link",
               content |-> PyList(<<[type |-> "text", content |-> capture.c[1]]>>),
               target |-> PyStr(MailTo_target(capture.c[1].str))], state, heap)
    [] rule_type = "url" ->
         Done([type |-> "link",
               content |-> PyList(<<[type |-> "text", content |-> capture.c[1]]>>),
               target |-> capture.c[1], title |-> PyNone], state, heap)
    [] rule_type = "link" ->
         parse_content([target |-> PyStr(unescape_url(capture.c[2].str)),
                        title |-> capture.c[3]],
                       capture.c[1].str, state, heap)
    [] rule_type = "image" ->
         Done([alt |-> capture.c[1], target |-> PyStr(unescape_url(capture.c[2].str)),
               title |-> capture.c[3]], state, heap)
    [] rule_type = "reflink" ->
         CallParse([k |-> "reflink"], capture.c[1].str, state, heap)
    [] rule_type = "refimage" ->
         parse_ref(capture, state, heap, [type |-> "image", alt |-> capture.c[1]])
    [] rule_type = "em" ->
         parse_content(EmptyDict, PyOr(capture.c[2], capture.c[1]).str, state, heap)
    [] rule_type = "inlineCode" ->
         Done([content |-> PyStr(ReSub(INLINE_CODE_ESCAPE_BACKTICKS_R, ReplGroup(1),
                                       capture.c[2].str))], state, heap)
    [] rule_type = "text" -> Done([content |-> capture.c[0]], state, heap)
    [] rule_type = "seek" -> Done([content |-> capture.c[0]], state, heap)
    [] rule_type = "pair" ->
         Done(PyList(<<[type |-> "text", content |-> PyStr(<<"a">>)],
                       [type |-> "text", content |-> PyStr(<<"b">>)]>>), state, heap)

\* the rest of a parse function after the nested_parse it called returned
\* result: frame is what the function kept, capture the capture it works on
Resume(frame, capture, result, state, heap) ==
  CASE frame.k = "parse_inline" ->
         Done(SetField(frame.node, "content", PyList(result)),
              [state EXCEPT !.inline = frame.is_currently_inline], heap)
    [] frame.k = "content" ->
         Done(SetField(frame.node, "content", PyList(result)), state, heap)
    [] frame.k = "reflink" ->
         parse_ref(capture, state, heap, [type |-> "link", content |-> PyList(result)])
    [] frame.k = "list" ->
         List_item([frame EXCEPT !.i = @ + 1,
                                 !.item_content = Append(@, PyList(result))],
                   [state EXCEPT !.inline = frame.old_state_inline,
                                 !._list = frame.old_state_list],
                   heap)
    [] frame.k = "table" ->
         LET cells == AsLists(TableCells(result, 1, <<<<>>>>,
                                         frame.trim_end_separators, heap))
             state1 == [state EXCEPT !.in_table = frame.prev_in_table]
         IN IF frame.phase = "header"
            THEN parse_table_row([frame EXCEPT !.phase = "cells", !.header = cells,
                                               !.rows_text = Tail(@)],
                                 Head(frame.rows_text), state1, heap)
            ELSE IF frame.rows_text # <<>>
            THEN parse_table_row([frame EXCEPT !.cells = Append(@, cells),
                                               !.rows_text = Tail(@)],
                                 Head(frame.rows_text), state1, heap)
            ELSE Done([type |-> "table", header |-> frame.header, align |-> frame.align,
                       cells |-> PyList(Append(frame.cells, cells))],
                      [state1 EXCEPT !.inline = PyBool(FALSE)], heap)

(***************************************************************************)
(* The program state.                                                      *)
(*   states        the dicts used as parse state: the default argument     *)
(*                 state = {} of each of default_block_parse,              *)
(*                 default_inline_parse and default_implicit_parse, which  *)
(*                 Python makes once, and "fresh", a {} the caller passes  *)
(*   call          the top-level call in progress: fn, st, source          *)
(*   stack         the activations of nested_parse, the innermost last:    *)
(*                 source and result are its locals, ret what the parse    *)
(*                 function that called it goes on with                    *)
(*   heap          the reference nodes, by identity                        *)
(*   current_order the module's global of that name                        *)
(*   hist          the calls that returned: the list returned (tree) and   *)
(*                 what it read as when it was returned (snap)             *)
(*   err           the exception that ended the last call, or "None"       *)
(*   out           the calls of default_html_output made on returned lists *)
(*   pre           preprocess applied again and again to a text            *)
(*   parser        the parser in use: what parser_for returned, which is   *)
(*                 default_raw_parse unless the program made its own       *)
(*   output        the output function made last by output_for             *)
(*   react         the call of Array.react in progress or returned: its    *)
(*                 locals, state['key'], and the calls of output it made   *)
(***************************************************************************)
VARIABLES states, call, stack, heap, current_order, hist, err, out, pre, parser, output, react

vars == <<states, call, stack, heap, current_order, hist, err, out, pre, parser, output, react>>

ParseFns == {"default_block_parse", "default_inline_parse", "default_implicit_parse"}
\* the running call, or the last one, and the steps it has taken
NoCall == [fn |-> "None", st |-> "None", source |-> <<>>, steps |-> 0]
TopRet == [frame |-> [k |-> "top"], capture |-> NoCapture, rule_type |-> "None"]

\* the parser the running call is a call of: default_raw_parse for the three
\* entry points, else the parser the program made
RunningParser == IF call.fn \in ParseFns THEN default_raw_parse ELSE parser

\* the dict the running call uses as state
StateId == IF call.st = "default" THEN call.fn ELSE "fresh"

RECURSIVE Deref(_, _)
\* a node, list or value as it reads with the reference nodes as they are in h
Deref(v, h) ==
  IF IsPtr(v) THEN Deref(h[v.ptr], h)
  ELSE IF IsList(v) THEN PyList([i \in DOMAIN v.list |-> Deref(v.list[i], h)])
  ELSE IF DOMAIN v \subseteq {"str", "none", "int", "bool"} /\ DOMAIN v # {} THEN v
  ELSE [f \in DOMAIN v |-> IF f = "type" THEN v[f] ELSE Deref(v[f], h)]

\* lines 123-131 of nested_parse: parsed is appended to result, a list as it
\* is and a node with its type set, the capture kept in the state and cut
\* off the source
Advance(frame, parsed, capture, rule_type) ==
  [frame EXCEPT
     !.result = Append(@, IF IsPtr(parsed) \/ IsList(parsed) \/ "type" \in DOMAIN parsed
                          THEN parsed
                          ELSE SetField(parsed, "type", rule_type)),
     !.source = Drop(@, Len(capture.c[0].str))]

\* what a parse function did (r, from RuleParse or Resume) put on the stack
\* below: its node goes in the caller's result, or nested_parse is called
Apply(below, r, capture, rule_type) ==
  IF r.k = "node"
  THEN /\ stack' = [below EXCEPT ![Len(below)] = Advance(@, r.node, capture, rule_type)]
       /\ states' = [states EXCEPT ![StateId] = [r.state EXCEPT !.previous_capture = capture]]
       /\ heap' = r.heap
  ELSE /\ stack' = Append(below, [source |-> r.source, result |-> <<>>,
                                  ret |-> [frame |-> r.frame, capture |-> capture,
                                           rule_type |-> rule_type]])
       /\ states' = [states EXCEPT ![StateId] = r.state]
       /\ heap' = r.heap

\* state['inline'] as each entry point sets it
InlineOf(fn, source) ==
  CASE fn = "default_block_parse" -> FALSE
    [] fn = "default_inline_parse" -> TRUE
    [] fn = "default_implicit_parse" -> ~ReMatch(BLOCK_END_R, source).ok

\* fn(source) with st = "default", fn(source, {}) with st = "fresh": the entry
\* point, then outer_parse up to its call of nested_parse
Call(fn, st, source) ==
  /\ stack = <<>>
  /\ LET state0 == IF st = "default" THEN states[fn] ELSE NewState
         latest_state == [state0 EXCEPT !.inline = PyBool(InlineOf(fn, source)),
                                        !.previous_capture = PyNone]
         src == IF ~Truthy(latest_state.inline) THEN source \o <<NL, NL>> ELSE source
     IN /\ states' = [states EXCEPT ![IF st = "default" THEN fn ELSE "fresh"] = latest_state]
        /\ stack' = <<[source |-> preprocess(src), result |-> <<>>, ret |-> TopRet]>>
  /\ call' = [fn |-> fn, st |-> st, source |-> source, steps |-> 0]
  /\ err' = "None"
  /\ UNCHANGED <<heap, current_order, hist, out, pre, parser, output, react>>

\* one turn of the while loop of nested_parse in the innermost activation, up
\* to the next call of nested_parse if the rule's parse function makes one
Iterate ==
  /\ stack # <<>>
  /\ stack[Len(stack)].source # <<>>
  /\ LET top == stack[Len(stack)]
         state == states[StateId]
         sel == Scan(ActiveRules(RunningParser), 1, NoSelection(current_order), top.source, state)
     IN /\ current_order' = sel.current_order
        /\ IF ~sel.capture.ok
           THEN /\ err' = "Could not find a matching rule"
                /\ stack' = <<>>
                /\ UNCHANGED <<states, heap>>
           ELSE IF sel.capture.pos # 0
           THEN /\ err' = "match must return a capture starting at index 0"
                /\ stack' = <<>>
                /\ UNCHANGED <<states, heap>>
           ELSE /\ err' = err
                /\ Apply(stack, RuleParse(sel.rule_type, sel.capture, state, heap),
                         sel.capture, sel.rule_type)
  /\ call' = [call EXCEPT !.steps = @ + 1]
  /\ UNCHANGED <<hist, out, pre, parser, output, react>>

\* an inner nested_parse returns its result to the parse function that
\* called it, which runs to its end or to its next call of nested_parse
Return ==
  /\ Len(stack) > 1
  /\ stack[Len(stack)].source = <<>>
  /\ LET top == stack[Len(stack)]
     IN Apply(SubSeq(stack, 1, Len(stack) - 1),
              Resume(top.ret.frame, top.ret.capture, top.result, states[StateId], heap),
              top.ret.capture, top.ret.rule_type)
  /\ call' = [call EXCEPT !.steps = @ + 1]
  /\ UNCHANGED <<current_order, hist, err, out, pre, parser, output, react>>

\* the outermost nested_parse returns: the call is over
Finish ==
  /\ Len(stack) = 1
  /\ stack[1].source = <<>>
  /\ hist' = Append(hist, [fn |-> call.fn, st |-> call.st, source |-> call.source,
                           tree |-> PyList(stack[1].result),
                           snap |-> Deref(PyList(stack[1].result), heap)])
  /\ stack' = <<>>
  /\ call' = [call EXCEPT !.steps = @ + 1]
  /\ UNCHANGED <<states, heap, current_order, err, out, pre, parser, output, react>>

NoText == <<>>
NoOutput == [of |-> 0, html |-> [ok |-> TRUE, s |-> <<>>]]
\* no call of Array.react yet
NoReact == [pc |-> "None", arr |-> <<>>, i |-> 0, key |-> 0, result |-> <<>>,
            state_key |-> PyNone, old_key |-> PyNone]

Init ==
  /\ states = [d \in ParseFns \cup {"fresh"} |-> NewState]
  /\ call = NoCall
  /\ stack = <<>>
  /\ heap = <<>>
  /\ current_order = default_rules[Len(default_rules)].order + 1
  /\ hist = <<>>
  /\ err = "None"
  /\ out = NoOutput
  /\ parser = default_raw_parse
  /\ output = DefaultHtmlOutput
  /\ react = NoReact
  /\ pre = [text |-> NoText, last |-> NoText, n |-> 0]

(***************************************************************************)
(* The HTML output: html_tag, the html functions of the rules, and         *)
(* default_html_output = output_for(default_rules, 'html').  A result is   *)
(* the text returned, or the exception raised (a KeyError for a key a node *)
(* or the rule table does not have, an IndexError for a column with no     *)
(* alignment).                                                             *)
(***************************************************************************)
Returned(s) == [ok |-> TRUE, s |-> s]
Raised(e, key) == [ok |-> FALSE, err |-> e, key |-> key]

\* f applied to what r returned; the exception r raised goes on
Then(r, F(_)) == IF r.ok THEN F(r.s) ELSE r

\* ''.join(rs) where each of rs returned, else the first exception raised
JoinAll(rs) ==
  LET bad == {i \in DOMAIN rs : ~rs[i].ok}
  IN IF bad = {} THEN Returned(Flatten([i \in DOMAIN rs |-> rs[i].s]))
     ELSE rs[CHOOSE i \in bad : \A j \in bad : i <= j]

RECURSIVE IntToStr(_)
\* str(n) for n >= 0
IntToStr(n) ==
  IF n < 10 THEN <<DigitSeq[n + 1]>> ELSE IntToStr(n \div 10) \o <<DigitSeq[(n % 10) + 1]>>

\* str(v)
PyToStr(v) ==
  IF IsStr(v) THEN v.str
  ELSE IF DOMAIN v = {"int"} THEN IntToStr(v.int)
  ELSE IF DOMAIN v = {"bool"} THEN (IF v.bool THEN <<"T", "r", "u", "e">> ELSE <<"F", "a", "l", "s", "e">>)
  ELSE <<"N", "o", "n", "e">>

\* html_tag(tag_name, content, attributes, is_closed): attributes is the dict
\* as the sequence of its <<key, value>> pairs
html_tag(tag_name, content, attributes, is_closed) ==
  LET attribute_string ==
        Flatten([a \in DOMAIN attributes |->
                   IF Truthy(attributes[a][2])
                   THEN <<SP>> \o sanitize_text(attributes[a][1]) \o <<"=", DQ>>
                        \o sanitize_text(PyToStr(attributes[a][2])) \o <<DQ>>
                   ELSE <<>>])
      unclosed_tag == <<"<">> \o tag_name \o attribute_string \o <<">">>
  IN IF is_closed THEN unclosed_tag \o content \o <<"<", "/">> \o tag_name \o <<">">>
     ELSE unclosed_tag

NoAttributes == <<>>

\* node[key] of a node: the value, or KeyError
HasKey(node, key) == key \in DOMAIN node

\* text nodes next to each other from index i on: the last index of the run
TextRunEnd(arr, i, h) ==
  LET others == {j \in i..Len(arr) : TypeOf(arr[j], h) # "text"}
  IN IF others = {} THEN Len(arr) ELSE (CHOOSE j \in others : \A m \in others : j <= m) - 1

RECURSIVE nested_output(_, _)
RECURSIVE Array_html(_, _, _)
RECURSIVE RuleHtml(_, _)

\* Array.html that gives output the first text node of a run and leaves out
\* the text nodes after it
Array_html_first_of_run(arr, i, h) ==
  IF i > Len(arr) THEN Returned(<<>>)
  ELSE
    LET isText == TypeOf(arr[i], h) = "text"
        last == IF isText THEN TextRunEnd(arr, i, h) ELSE i
        first == nested_output(arr[i], h)
    IN IF ~first.ok THEN first
       ELSE Then(Array_html(arr, last + 1, h), LAMBDA s : Returned(first.s \o s))

\* Array.html(arr, output, state) from index i on (i = 1 is Python's i = 0)
Array_html(arr, i, h) ==
  IF i > Len(arr) THEN Returned(<<>>)
  ELSE
    LET isText == TypeOf(arr[i], h) = "text"
        last == IF isText THEN TextRunEnd(arr, i, h) ELSE i
        node == IF isText
                THEN [type |-> "text",
                      content |-> PyStr(Flatten([j \in 1..(last - i + 1) |->
                                                   arr[i + j - 1].content.str]))]
                ELSE arr[i]
        first == nested_output(node, h)
    IN IF ~first.ok THEN first
       ELSE Then(Array_html(arr, last + 1, h), LAMBDA s : Returned(first.s \o s))

\* get_style(column_index) of Table.html: column is 1-based here
get_style(node, column) ==
  IF column > Len(node.align.list) THEN Raised("IndexError", "align")
  ELSE IF ~Truthy(node.align.list[column]) THEN Returned(<<>>)
  ELSE Returned(<<"t", "e", "x", "t", "-", "a", "l", "i", "g", "n", ":">> \o node.align.list[column].str \o <<";">>)

\* one th or td of Table.html: the content is put out before the style is read
Table_cell(tag, content, node, column, scope, h) ==
  LET c == nested_output(content, h)
      style == get_style(node, column)
  IN IF ~c.ok THEN c
     ELSE IF ~style.ok THEN style
     ELSE Returned(html_tag(tag, c.s,
                            <<<<<<"s", "t", "y", "l", "e">>, PyStr(style.s)>>>> \o scope, TRUE))

\* rules[node['type']].html(node, nested_output, state) for a node (not a
\* reference to one)
RuleHtml(node, h) ==
  LET content == IF HasKey(node, "content") THEN nested_output(node.content, h)
                 ELSE Raised("KeyError", "content")
      Tag(name, attributes) == Then(content, LAMBDA s : Returned(html_tag(name, s, attributes, TRUE)))
  IN
  CASE node.type = "heading" -> Tag(<<"h">> \o PyToStr(node.level), NoAttributes)
    [] node.type = "hr" -> Returned(<<"<", "h", "r", ">">>)
    [] node.type = "codeBlock" ->
         LET class_name == IF Truthy(node.lang)
                           THEN PyStr(<<"m", "a", "r", "k", "d", "o", "w", "n", "-", "c", "o", "d", "e", "-">> \o PyToStr(node.lang)) ELSE PyNone
             code_block == html_tag(<<"c", "o", "d", "e">>, sanitize_text(PyToStr(node.content)),
                                    <<<<<<"c", "l", "a", "s", "s">>, class_name>>>>, TRUE)
         IN Returned(html_tag(<<"p", "r", "e">>, code_block, NoAttributes, TRUE))
    [] node.type = "blockQuote" -> Tag(<<"b", "l", "o", "c", "k", "q", "u", "o", "t", "e">>, NoAttributes)
    [] node.type = "list" ->
         LET items == JoinAll([i \in DOMAIN node.items.list |->
                                 Then(nested_output(node.items.list[i], h),
                                      LAMBDA s : Returned(html_tag(<<"l", "i">>, s, NoAttributes, TRUE)))])
         IN Then(items, LAMBDA list_items :
                   Returned(html_tag(IF Truthy(node.ordered) THEN <<"o", "l">> ELSE <<"u", "l">>, list_items,
                                     <<<<<<"s", "t", "a", "r", "t">>, node.start>>>>, TRUE)))
    [] node.type = "def" -> Returned(<<>>)
    [] node.type = "table" ->
         LET headers == JoinAll([i \in DOMAIN node.header.list |->
                                   Table_cell(<<"t", "h">>, node.header.list[i], node, i,
                                              <<<<<<"s", "c", "o", "p", "e">>, PyStr(<<"c", "o", "l">>)>>>>, h)])
             Row(row) == Then(JoinAll([c \in DOMAIN row.list |->
                                         Table_cell(<<"t", "d">>, row.list[c], node, c, <<>>, h)]),
                              LAMBDA s : Returned(html_tag(<<"t", "r">>, s, NoAttributes, TRUE)))
             rows == JoinAll([r \in DOMAIN node.cells.list |-> Row(node.cells.list[r])])
         IN IF ~headers.ok THEN headers
            ELSE IF ~rows.ok THEN rows
            ELSE Returned(html_tag(<<"t", "a", "b", "l", "e">>,
                   html_tag(<<"t", "h", "e", "a", "d">>, html_tag(<<"t", "r">>, headers.s, NoAttributes, TRUE),
                            NoAttributes, TRUE)
                   \o html_tag(<<"t", "b", "o", "d", "y">>, rows.s, NoAttributes, TRUE),
                   NoAttributes, TRUE))
    [] node.type = "newline" -> Returned(<<NL>>)
    [] node.type = "paragraph" -> Tag(<<"d", "i", "v">>, <<<<<<"c", "l", "a", "s", "s">>, PyStr(<<"p", "a", "r", "a", "g", "r", "a", "p", "h">>)>>>>)
    [] node.type = "tableSeparator" -> Returned(<<SP, "&", "v", "e", "r", "t", ";", SP>>)
    [] node.type = "link" ->
         IF ~HasKey(node, "target") THEN Raised("KeyError", "target")
         ELSE Tag(<<"a">>,
                  <<<<<<"h", "r", "e", "f">>, PyStr(sanitize_text(PyToStr(node.target)))>>,
                    <<<<"t", "i", "t", "l", "e">>, IF HasKey(node, "title") THEN node.title ELSE PyNone>>>>)
    [] node.type = "image" ->
         IF ~HasKey(node, "target") THEN Raised("KeyError", "target")
         ELSE IF ~HasKey(node, "title") THEN Raised("KeyError", "title")
         ELSE Returned(html_tag(<<"i", "m", "g">>, <<>>,
                                <<<<<<"s", "r", "c">>, PyStr(sanitize_text(PyToStr(node.target)))>>,
                                  <<<<"a", "l", "t">>, node.alt>>, <<<<"t", "i", "t", "l", "e">>, node.title>>>>, FALSE))
    [] node.type = "em" -> Tag(<<"e", "m">>, NoAttributes)
    [] node.type = "strong" -> Tag(<<"s", "t", "r", "o", "n", "g">>, NoAttributes)
    [] node.type = "u" -> Tag(<<"u">>, NoAttributes)
    [] node.type = "del" -> Tag(<<"d", "e", "l">>, NoAttributes)
    [] node.type = "inlineCode" ->
         Returned(html_tag(<<"c", "o", "d", "e">>, sanitize_text(PyToStr(node.content)), NoAttributes, TRUE))
    [] node.type = "br" -> Returned(<<"<", "b", "r", ">">>)
    [] node.type = "text" -> Returned(sanitize_text(PyToStr(node.content)))
    [] OTHER -> Raised("KeyError", node.type)

\* nested_output(ast, state) of output_for: a list goes to Array.html, a node
\* to the html of rules[ast['type']]
nested_output(ast, h) ==
  IF IsPtr(ast) THEN RuleHtml(h[ast.ptr], h)
  ELSE IF IsList(ast) THEN Array_html(ast.list, 1, h)
  ELSE RuleHtml(ast, h)

\* default_html_output(ast, state) on a list that a parse returned
default_html_output(ast, h) == nested_output(ast, h)

(***************************************************************************)
(* sanitize_url and the unquote of urllib.parse it calls.                  *)
(***************************************************************************)
HexDigits == <<"0", "1", "2", "3", "4", "5", "6", "7", "8", "9", "a", "b", "c", "d", "e", "f">>
HexUpper == <<"0", "1", "2", "3", "4", "5", "6", "7", "8", "9", "A", "B", "C", "D", "E", "F">>
IsHex(c) == \E d \in 1..16 : HexDigits[d] = c \/ HexUpper[d] = c
HexVal(c) == (CHOOSE d \in 1..16 : HexDigits[d] = c \/ HexUpper[d] = c) - 1

\* chr(32) .. chr(126)
Printable ==
  <<SP, "!", DQ, "#", "$", "%", "&", "'", "(", ")", "*", "+", ",", "-", ".", "/", "0", "1", "2", "3", "4", "5", "6", "7", "8", "9", ":", ";", "<", "=", ">", "?", "@", "A", "B", "C", "D", "E", "F", "G", "H", "I", "J", "K", "L", "M", "N", "O", "P", "Q", "R", "S", "T", "U", "V", "W", "X", "Y", "Z", "[", BSL, "]", "^", "_", BT, "a", "b", "c", "d", "e", "f", "g", "h", "i", "j", "k", "l", "m", "n", "o", "p", "q", "r", "s", "t", "u", "v", "w", "x", "y", "z", "{", "|", "}", "~">>

\* a character unquote gives that is none of the above: every use of unquote
\* in the program deletes it in the next step
OtherChar == "U+FFFD"

\* chr(n) of a decoded byte
Chr(n) ==
  IF n >= 32 /\ n <= 126 THEN Printable[n - 31]
  ELSE IF n = 9 THEN TAB ELSE IF n = 10 THEN NL ELSE IF n = 12 THEN FF
  ELSE IF n = 13 THEN CR ELSE OtherChar

\* the positions of s where a %XX escape starts
EscapeAt(s, i) == i + 2 <= Len(s) /\ s[i] = "%" /\ IsHex(s[i + 1]) /\ IsHex(s[i + 2])

\* urllib.parse.unquote(s): every %XX becomes the character it encodes
unquote(s) ==
  LET starts == {i \in DOMAIN s : EscapeAt(s, i)}
      \* "%%41": an escape cannot start inside the one before it
      inside == {i \in DOMAIN s : \E j \in starts : j < i /\ i <= j + 2}
  IN Flatten([i \in DOMAIN s |->
                IF i \in inside THEN <<>>
                ELSE IF i \in starts THEN <<Chr(16 * HexVal(s[i + 1]) + HexVal(s[i + 2]))>>
                ELSE <<s[i]>>])

StartsWith(s, p) == Len(s) >= Len(p) /\ SubSeq(s, 1, Len(p)) = p

\* sanitize_url(url): None for a url of a dangerous scheme, else the url
sanitize_url(url) ==
  IF ~Truthy(url) THEN PyNone
  ELSE LET kept == unquote(url.str)
           clean == Flatten([i \in DOMAIN kept |->
                               IF kept[i] \in Word \ {"_"} \/ kept[i] \in {"/", ":"}
                               THEN <<LowerChar(kept[i])>>
                               ELSE <<>>])
       IN IF StartsWith(clean, <<"j", "a", "v", "a", "s", "c", "r", "i", "p", "t", ":">>) \/ StartsWith(clean, <<"v", "b", "s", "c", "r", "i", "p", "t", ":">>)
             \/ StartsWith(clean, <<"d", "a", "t", "a", ":">>)
          THEN PyNone ELSE url

(***************************************************************************)
(* The calls a program makes one after the other: parses, HTML output of   *)
(* a list a parse returned, and preprocess on its own.                     *)
(***************************************************************************)
MaxCalls == 3

\* default_html_output(hist[h].tree, {}) with the reference nodes as they
\* are now
Render(h) ==
  /\ stack = <<>>
  /\ out' = [of |-> h, html |-> default_html_output(hist[h].tree, heap)]
  /\ UNCHANGED <<states, call, stack, heap, current_order, hist, err, pre, parser, output, react>>

\* preprocess(pre.text)
Preprocess ==
  /\ pre' = [text |-> preprocess(pre.text), last |-> pre.text, n |-> pre.n + 1]
  /\ UNCHANGED <<states, call, stack, heap, current_order, hist, err, out, parser, output, react>>

\* the parse of one of sources by one of fns, with the default state or a new
\* dict, while fewer than MaxCalls parses returned
Calls(fns, sts, sources) ==
  /\ Len(hist) < MaxCalls
  /\ \E fn \in fns, st \in sts, source \in sources : Call(fn, st, source)

(***************************************************************************)
(* preprocess on its own: the text is any text of up to MaxPreLen of the   *)
(* characters preprocess replaces and one it keeps, and preprocess is      *)
(* applied to what it returned up to MaxApply times.                       *)
(***************************************************************************)
MaxPreLen == 3
MaxApply == 2
PreAlphabet == {CR, NL, TAB, FF, SP, "a"}

\* the texts of up to n characters of alphabet
Texts(alphabet, n) == UNION {[1..k -> alphabet] : k \in 0..n}

InitPreprocess ==
  /\ states = [d \in ParseFns \cup {"fresh"} |-> NewState]
  /\ call = NoCall
  /\ stack = <<>>
  /\ heap = <<>>
  /\ current_order = default_rules[Len(default_rules)].order + 1
  /\ hist = <<>>
  /\ err = "None"
  /\ out = NoOutput
  /\ parser = default_raw_parse
  /\ output = DefaultHtmlOutput
  /\ react = NoReact
  /\ \E text \in Texts(PreAlphabet, MaxPreLen) : pre = [text |-> text, last |-> text, n |-> 0]

NextPreprocess == pre.n < MaxApply /\ Preprocess

SpecPreprocess == InitPreprocess /\ [][NextPreprocess]_vars

\* C7: preprocess is idempotent: preprocess applied to a text that preprocess
\* returned gives that text back
PreprocessIdempotent == pre.n >= 2 => pre.text = pre.last

\* preprocess was applied twice to a text it had to change: the tab it made
\* a newline and the carriage return it made four spaces
PreprocessTwiceWitness ==
  /\ pre.n = 2
  /\ Len(pre.text) > MaxPreLen
  /\ \E i \in DOMAIN pre.text : pre.text[i] = NL

(***************************************************************************)
(* A program that makes up to MaxCalls parses one after the other, each    *)
(* with the default state of the entry point or with a new dict, of a      *)
(* reference and of the definition of the name it refers to.               *)
(***************************************************************************)
SessionSources == {<<"[", "x", "]", "[", "y", "]">>, <<"[", "y", "]", ":", SP, "u">>}

Next ==
  \/ Calls(ParseFns, {"default", "fresh"}, SessionSources)
  \/ Iterate
  \/ Return
  \/ Finish

Spec == Init /\ [][Next]_vars

\* the parses that have returned and were default_block_parse(source)
DefaultBlockParses ==
  {h \in DOMAIN hist : hist[h].fn = "default_block_parse" /\ hist[h].st = "default"}

\* C1: determinism across calls: default_block_parse(s) without a state
\* returns the same node list whatever calls came before it, and the node
\* list a call returned reads the same after every later call
DeterminismAcrossCalls ==
  /\ \A i, j \in DefaultBlockParses :
       hist[i].source = hist[j].source => hist[i].snap = hist[j].snap
  /\ \A h \in DOMAIN hist : stack = <<>> => Deref(hist[h].tree, heap) = hist[h].snap

(***************************************************************************)
(* What the claims say of a tree: its nodes at any depth.                  *)
(***************************************************************************)
IsValue(v) == DOMAIN v \subseteq {"str", "none", "int", "bool"} /\ DOMAIN v # {}

RECURSIVE NodesOf(_)
\* the nodes of a tree without references (a snap of hist, or Deref of a tree)
NodesOf(v) ==
  IF IsValue(v) THEN {}
  ELSE IF IsList(v) THEN UNION {NodesOf(v.list[i]) : i \in DOMAIN v.list}
  ELSE {v} \cup UNION {NodesOf(v[f]) : f \in DOMAIN v \ {"type"}}

NodesOfType(v, type) == {n \in NodesOf(v) : "type" \in DOMAIN n /\ n.type = type}

\* one top-level parse: of one of sources by one of fns
OneCall(fns, sts, sources) ==
  /\ hist = <<>>
  /\ call = NoCall
  /\ \E fn \in fns, st \in sts, source \in sources : Call(fn, st, source)

(***************************************************************************)
(* One block parse of a reference [t][n1], a blank line and a definition   *)
(* [n2]: url, for names of up to MaxNameLen characters.                    *)
(***************************************************************************)
MaxNameLen == 2
RefNames == Texts({"x", "X", SP}, MaxNameLen) \ {<<>>}
RefUrls == {<<"u">>, <<"v", "w">>}
RefThenDef(n1, n2, url) == <<"[", "t", "]", "[">> \o n1 \o <<"]", NL, NL, "[">> \o n2 \o <<"]", ":", SP>> \o url
\* a name as the claim compares names: lowercased, every run of whitespace
\* one space
ComparedName(n) ==
  Lower(Flatten([i \in DOMAIN n |->
                   IF n[i] \in Space
                   THEN (IF i > 1 /\ n[i - 1] \in Space THEN <<>> ELSE <<SP>>)
                   ELSE <<n[i]>>]))

\* the definition has a name that compares equal to the name of the
\* reference, or the name x
RefDefNames ==
  {nn \in RefNames \X RefNames : ComparedName(nn[1]) = ComparedName(nn[2]) \/ nn[2] = <<"x">>}
BackpatchSources == {RefThenDef(nn[1], nn[2], url) : nn \in RefDefNames, url \in RefUrls}

NextBackpatch ==
  \/ OneCall({"default_block_parse"}, {"default", "fresh"}, BackpatchSources)
  \/ Iterate
  \/ Return
  \/ Finish

SpecBackpatch == Init /\ [][NextBackpatch]_vars

\* C2: reference back-patching: when the definition [n2]: url comes after the
\* reference [t][n1] in the source of one top-level parse and the names
\* compare equal, the link node of the reference has target url when the
\* parse returns
ReferenceBackpatched ==
  \A h \in DOMAIN hist : \A n1 \in RefNames, n2 \in RefNames, url \in RefUrls :
    (hist[h].source = RefThenDef(n1, n2, url) /\ ComparedName(n1) = ComparedName(n2))
    => /\ NodesOfType(hist[h].snap, "link") # {}
       /\ \A n \in NodesOfType(hist[h].snap, "link") :
            "target" \in DOMAIN n /\ n.target = PyStr(url)

\* a parse returned a link with the target of a definition that came after
\* the reference, under a name written differently
BackpatchWitness ==
  \E h \in DOMAIN hist :
    /\ hist[h].source = RefThenDef(<<"X", SP>>, <<"x", SP>>, <<"v", "w">>)
    /\ \E n \in NodesOfType(hist[h].snap, "link") :
         "target" \in DOMAIN n /\ n.target = PyStr(<<"v", "w">>)
    /\ NodesOfType(hist[h].snap, "def") # {}

(***************************************************************************)
(* One parse, by any of the three entry points, of a source made of up to  *)
(* MaxTokens pieces of Markdown.                                           *)
(***************************************************************************)
MaxTokens == 2
ParseTokens ==
  {<<"a">>, <<"*">>, <<NL, NL>>, <<"-", SP>>, <<">", SP>>, <<"[", "a", "]">>, <<"|", "*", "a", "|", "b", "*", NL, "|", "-", NL>>}

\* the texts made of up to n of tokens
TokenTexts(tokens, n) == {Flatten(ts) : ts \in UNION {[1..k -> tokens] : k \in 0..n}}

ParseSources == TokenTexts(ParseTokens, MaxTokens)

NextParse ==
  \/ OneCall(ParseFns, {"default", "fresh"}, ParseSources)
  \/ Iterate
  \/ Return
  \/ Finish

SpecParse == Init /\ [][NextParse]_vars

\* the running call takes its next step: Iterate, Return or Finish, of which
\* one is possible while the call runs
Step == stack # <<>> /\ call' = [call EXCEPT !.steps = @ + 1]

\* a call that runs goes on running: the program is sequential and nothing
\* but the call itself stops it
SpecParseFair == SpecParse /\ WF_call(Step)

\* a turn of the parse loop of the activation at depth k ends in this step:
\* its result gets one more node
TurnEnds(k) ==
  /\ k \in DOMAIN stack /\ k \in DOMAIN stack'
  /\ Len(stack'[k].result) = Len(stack[k].result) + 1

\* C3: progress: every turn of the parse loop, top-level or nested, leaves
\* the remaining source strictly shorter, no turn ends in an exception, and
\* every parse that is called returns, which it does with the remaining
\* source empty
Progress ==
  /\ [][\A k \in DOMAIN stack :
          TurnEnds(k) => Len(stack'[k].source) < Len(stack[k].source)]_vars
  /\ [](err = "None")
  /\ (stack # <<>>) ~> (stack = <<>> /\ Len(hist) = 1)

\* a parse with nested parse loops returned: a list in a block quote, with
\* the content of its item
ProgressWitness ==
  /\ stack = <<>>
  /\ \E h \in DOMAIN hist :
       /\ hist[h].source = <<">", SP, "-", SP>>
       /\ NodesOfType(hist[h].snap, "blockQuote") # {}
       /\ NodesOfType(hist[h].snap, "list") # {}

(***************************************************************************)
(* Two inline parses one after the other: of **a** and then of a, for      *)
(* every run a of up to MaxRunLen characters that has no asterisk and no   *)
(* backslash.                                                              *)
(***************************************************************************)
MaxRunLen == 3
RunAlphabet == {"a", "_", SP, FF}
Runs == Texts(RunAlphabet, MaxRunLen) \ {<<>>}
StrongOf(a) == <<"*", "*">> \o a \o <<"*", "*">>

\* default_inline_parse(a) once default_inline_parse('**' + a + '**') returned
CallRun(sts) ==
  /\ Len(hist) = 1
  /\ \E a \in Runs, st \in sts :
       /\ hist[1].source = StrongOf(a)
       /\ Call("default_inline_parse", st, a)

NextStrong ==
  \/ OneCall({"default_inline_parse"}, {"default", "fresh"}, {StrongOf(a) : a \in Runs})
  \/ CallRun({"default", "fresh"})
  \/ Iterate
  \/ Return
  \/ Finish

SpecStrong == Init /\ [][NextStrong]_vars

\* the list with one strong node whose content is the list content
OneStrong(content) == PyList(<<[type |-> "strong", content |-> content]>>)

\* C4 as stated: emphasis precedence: the inline parse of **a**, a a non-empty
\* run without asterisk or backslash, is one strong node whose content is the
\* inline parse of a, and no em node
StrongPrecedence ==
  Len(hist) = 2 =>
    /\ hist[1].snap = OneStrong(hist[2].snap)
    /\ \A i \in DOMAIN hist[1].snap.list : hist[1].snap.list[i].type # "em"

\* C4: emphasis precedence, for a run that preprocess does not leave empty:
\* when a has a character that is not a form feed, the inline parse of **a**
\* is one strong node whose content is the inline parse of a, and no em node
StrongPrecedenceOfKeptRun ==
  (Len(hist) = 2 /\ \E i \in DOMAIN hist[2].source : hist[2].source[i] # FF) =>
    /\ hist[1].snap = OneStrong(hist[2].snap)
    /\ \A i \in DOMAIN hist[1].snap.list : hist[1].snap.list[i].type # "em"

\* both parses returned for the run _a_: the one strong node holds the em
\* node that the inline parse of the run is
StrongPrecedenceWitness ==
  /\ stack = <<>>
  /\ Len(hist) = 2
  /\ hist[2].source = <<"_", "a", "_">>
  /\ hist[1].source = StrongOf(<<"_", "a", "_">>)
  /\ NodesOfType(hist[2].snap, "em") # {}
  /\ NodesOfType(hist[1].snap, "strong") # {}

(***************************************************************************)
(* One inline parse, with a new dict as state, of a source made of up to   *)
(* MaxInlineTokens pieces, most of them blocks when parsed in block mode.  *)
(***************************************************************************)
MaxInlineTokens == 2
InlineTokens ==
  {<<"a">>, <<"*", "a", "*">>, <<"#", SP, "a", NL, NL>>, <<"-", "-", "-", NL, NL>>, <<">", SP, "a", NL, NL>>, <<SP, SP, SP, SP, "a", NL, NL>>, <<"-", SP, "a", NL, NL>>, <<"|", "a", "|", NL, "|", "-", "|", NL, "|", "b", "|", NL, NL>>}
InlineSources == TokenTexts(InlineTokens, MaxInlineTokens)

NextInline ==
  \/ OneCall({"default_inline_parse"}, {"fresh"}, InlineSources)
  \/ Iterate
  \/ Return
  \/ Finish

SpecInline == Init /\ [][NextInline]_vars

BlockTypes == {"paragraph", "heading", "list", "blockQuote", "hr", "codeBlock", "table"}

\* C5: block/inline discipline: the tree that default_inline_parse returns
\* when called with a new state has, at any depth, no node of type paragraph,
\* heading, list, blockQuote, hr, codeBlock or table
InlineParseEmitsNoBlock ==
  \A h \in DOMAIN hist :
    (hist[h].fn = "default_inline_parse" /\ hist[h].st = "fresh")
    => \A type \in BlockTypes : NodesOfType(hist[h].snap, type) = {}

\* the inline parse of a heading line followed by emphasis returned: an em
\* node with its content, and text for the heading line
InlineParseWitness ==
  \E h \in DOMAIN hist :
    /\ hist[h].fn = "default_inline_parse"
    /\ hist[h].source = <<"#", SP, "a", NL, NL, "*", "a", "*">>
    /\ NodesOfType(hist[h].snap, "em") # {}
    /\ NodesOfType(hist[h].snap, "text") # {}

\* the keys of the rule table
RuleKeys == {default_rules[i].name : i \in DOMAIN default_rules}

\* C6: type coverage: every node at any depth of the tree a default parse
\* returns, the nodes in table cells and in emphasis in table cells too, has
\* a type that is a key of the default rule table
TypeCoverage ==
  \A h \in DOMAIN hist : \A n \in NodesOf(hist[h].snap) :
    "type" \in DOMAIN n /\ n.type # "" /\ n.type \in RuleKeys

\* the text ends in two or more newlines
EndsInBlankLine(s) == Len(s) >= 2 /\ s[Len(s)] = NL /\ s[Len(s) - 1] = NL

\* C8: mode choice of the implicit parse: default_implicit_parse starts the
\* parse in block mode (state['inline'] false) when the source ends in two or
\* more newlines, and in inline mode when it does not
ImplicitModeChoice ==
  (call.fn = "default_implicit_parse" /\ stack # <<>> /\ call.steps = 0)
  => (Truthy(states[StateId].inline) <=> ~EndsInBlankLine(call.source))

(***************************************************************************)
(* One parse of a source with a link or an image, and then the HTML output *)
(* of the list the parse returned.                                         *)
(***************************************************************************)
UnresolvedSources == {<<"[", "x", "]", "[", "y", "]">>, <<"!", "[", "x", "]", "[", "y", "]">>}
LinkSources ==
  {<<"[", "x", "]", "[", "y", "]", NL, NL, "[", "y", "]", ":", SP, "u">>, <<"[", "x", "]", "(", "u", ")">>, <<"[", "x", "]", "(", "d", "a", "t", "a", ":", "a", ")">>, <<"[", "x", "]", "(", "J", "a", "v", "a", "S", "c", "r", "i", "p", "t", ":", "a", ")">>, <<"[", "x", "]", "(", "%", "6", "4", "a", "t", "a", ":", "a", ")">>}

\* default_html_output on a list a parse returned
Output == \E h \in DOMAIN hist : Render(h)

NextRender ==
  \/ OneCall(ParseFns, {"default", "fresh"}, UnresolvedSources \cup LinkSources)
  \/ Iterate
  \/ Return
  \/ Finish
  \/ Output

SpecRender == Init /\ [][NextRender]_vars

\* C9: unresolved references are not errors: for a source with a reference
\* link or a reference image whose name has no definition, the parse returns
\* without an exception and so does the HTML output of the tree it returned
UnresolvedReferenceIsNoError ==
  /\ err = "None"
  /\ (out.of # 0 /\ hist[out.of].source \in UnresolvedSources) => out.html.ok

\* the text p occurs in the text s
Contains(s, p) == \E i \in 0..(Len(s) - Len(p)) : SubSeq(s, i + 1, i + Len(p)) = p

\* a target of a dangerous scheme: sanitize_url gives None for it
Dangerous(target) == IsStr(target) /\ Truthy(target) /\ sanitize_url(target) = PyNone

\* C10: dangerous URL schemes are stripped on render: when a link node has a
\* target that, URL-decoded, without the characters outside [A-Za-z0-9/:] and
\* lowercased, begins with javascript:, vbscript: or data:, the HTML output
\* has no href attribute with that target
RenderStripsDangerousUrl ==
  (out.of # 0 /\ out.html.ok) =>
    \A n \in NodesOfType(Deref(hist[out.of].tree, heap), "link") :
      ("target" \in DOMAIN n /\ Dangerous(n.target))
      => ~Contains(out.html.s, <<"h", "r", "e", "f", "=", DQ>> \o sanitize_text(n.target.str))

(***************************************************************************)
(* A program that makes output functions: output_for(rules, property) for  *)
(* rule maps with or without an Array rule, whose html and react are       *)
(* methods, None or missing, and for property 'html', 'react' or ''.       *)
(***************************************************************************)
Renderers == {"method", "None", "absent"}
ArrayRules ==
  {[name |-> "Array", chars |-> <<"A", "r", "r", "a", "y">>, order |-> 0, quality |-> FALSE,
    match |-> TRUE, html |-> h, react |-> r] : h \in Renderers, r \in Renderers}
NodeRules ==
  {<<>>, <<RuleOf(default_rules, "text")>>, <<RuleOf(default_rules, "em")>>,
   <<RuleOf(default_rules, "em"), RuleOf(default_rules, "text")>>}
OutputRuleMaps ==
  {array \o nodes : array \in {<<>>} \cup {<<rule>> : rule \in ArrayRules}, nodes \in NodeRules}
Properties == {"html", "react", ""}

\* output_for(rules, property)
OutputFor(rules, property) ==
  /\ stack = <<>>
  /\ output' = output_for(rules, property)
  /\ UNCHANGED <<states, call, stack, heap, current_order, hist, err, out, pre, parser, react>>

MakeOutput == \E rules \in OutputRuleMaps, property \in Properties : OutputFor(rules, property)

NextOutputFor == MakeOutput

SpecOutputFor == Init /\ [][NextOutputFor]_vars

\* the rule map given to output_for has an Array rule with a renderer for
\* the property asked for
HasJoiner(rules, property) ==
  IF HasRule(rules, "Array") THEN Attr(RuleOf(rules, "Array"), property) = "method"
  ELSE FALSE

\* C11: output_for fails when it is called, before any output is made, if
\* the rule map has no Array rule or its Array rule has no renderer for the
\* property, and it never takes another joiner in its place
OutputForNeedsJoiner ==
  /\ ~HasJoiner(output.rules, output.property) => ~output.ok
  /\ output.ok => output.array_rule = "rules"

(***************************************************************************)
(* A program that makes its own parser: parser_for(rules) for a rule map   *)
(* of up to four rules (seek, pair, and Em and Text of default_rules, the   *)
(* order of seek a number or a str, that of text a number or None),        *)
(* and then one call of the parser on a text of up to MaxCustomLen         *)
(* characters with a state whose inline the program sets.                  *)
(***************************************************************************)
MaxCustomLen == 3
SeekRule(order_type) ==
  [name |-> "seek", chars |-> <<"s", "e", "e", "k">>, order |-> 0, order_type |-> order_type,
   quality |-> FALSE, match |-> TRUE]
PairRule ==
  [name |-> "pair", chars |-> <<"p", "a", "i", "r">>, order |-> 1, order_type |-> "int",
   quality |-> FALSE, match |-> TRUE]
TextRule(order_type) ==
  [name |-> "text", chars |-> <<"t", "e", "x", "t">>, order |-> 25, order_type |-> order_type,
   quality |-> FALSE, match |-> TRUE]
CustomRuleMaps ==
  {seek \o pair \o em \o text :
     seek \in {<<>>, <<SeekRule("int")>>, <<SeekRule("str")>>},
     pair \in {<<>>, <<PairRule>>},
     em \in {<<>>, <<RuleOf(default_rules, "em")>>},
     text \in {<<>>, <<TextRule("int")>>, <<TextRule("NoneType")>>}} \ {<<>>}
CustomSources == Texts({"a", "b", "*"}, MaxCustomLen)

\* parser = parser_for(rules)
ParserFor(rules) ==
  /\ stack = <<>>
  /\ hist = <<>>
  /\ call = NoCall
  /\ parser' = parser_for(rules)
  /\ UNCHANGED <<states, call, stack, heap, current_order, hist, err, out, pre, output, react>>

\* parser(source, {'inline': inline}) for the parser the program made: the
\* call of outer_parse up to its call of nested_parse
CallParser(inline, source) ==
  /\ stack = <<>>
  /\ hist = <<>>
  /\ call = NoCall
  /\ parser.ok
  /\ parser # default_raw_parse
  /\ states' = [states EXCEPT !["fresh"] = [NewState EXCEPT !.inline = PyBool(inline),
                                                            !.previous_capture = PyNone]]
  /\ stack' = <<[source |-> preprocess(IF inline THEN source ELSE source \o <<NL, NL>>),
                 result |-> <<>>, ret |-> TopRet]>>
  /\ call' = [fn |-> "outer_parse", st |-> "fresh", source |-> source, steps |-> 0,
               inline |-> inline]
  /\ err' = "None"
  /\ UNCHANGED <<heap, current_order, hist, out, pre, parser, output, react>>

MakeParser == \E rules \in CustomRuleMaps : ParserFor(rules)
CallCustom == \E inline \in BOOLEAN, source \in CustomSources : CallParser(inline, source)

NextCustom ==
  \/ MakeParser
  \/ CallCustom
  \/ Iterate
  \/ Return
  \/ Finish

SpecCustom == Init /\ [][NextCustom]_vars

\* C12: unanchored captures are fatal: a capture whose match does not begin
\* at offset 0 of the remaining source is never consumed (kept as previous
\* capture and cut off the source): the parse fails with the anchoring error
UnanchoredCaptureIsFatal ==
  \A d \in DOMAIN states :
    IsNone(states[d].previous_capture) \/ states[d].previous_capture.start = 0

(***************************************************************************)
(* One block parse of a list of up to MaxItems one-line items, all with    *)
(* the same bullet, then the inline parse of each item's text on its own.  *)
(***************************************************************************)
MaxItems == 2
Bullets == {<<"-">>, <<"1", ".">>, <<"1", "2", ".">>}
ItemTexts == {<<"a">>, <<"a", SP, "b">>, <<"*", "a", "*">>, <<"*", "*">>, <<"-", SP, "a">>, <<"a", SP>>}
ItemLists == UNION {[1..k -> ItemTexts] : k \in 1..MaxItems}
ListInputs == [bullet : Bullets, texts : ItemLists]

\* the lines bullet, space, text of the items and the blank line after them
ListSource(inp) ==
  Flatten([i \in DOMAIN inp.texts |-> inp.bullet \o <<SP>> \o inp.texts[i] \o <<NL>>]) \o <<NL>>

\* default_inline_parse(text, {}) of the next item's text once the block
\* parse of the list, and the inline parses of the items before, returned
CallItem ==
  /\ hist # <<>>
  /\ \E inp \in ListInputs :
       /\ hist[1].source = ListSource(inp)
       /\ Len(hist) <= Len(inp.texts)
       /\ Call("default_inline_parse", "fresh", inp.texts[Len(hist)])

NextList ==
  \/ OneCall({"default_block_parse"}, {"fresh"}, {ListSource(inp) : inp \in ListInputs})
  \/ CallItem
  \/ Iterate
  \/ Return
  \/ Finish

SpecList == Init /\ [][NextList]_vars

\* the list with one list node: unordered without start for a one-character
\* bullet, else ordered with the number of the bullet as start
OneList(bullet, items) ==
  PyList(<<[type |-> "list",
            ordered |-> PyBool(bullet[1] \in Digits),
            start |-> IF bullet[1] \in Digits
                      THEN PyInt(StrToInt(SubSeq(bullet, 1, Len(bullet) - 1)))
                      ELSE PyNone,
            items |-> PyList(items)]>>)

\* the block parse of the list of inp and the inline parse of each of its
\* texts returned
ItemsParsed(inp) == hist # <<>> /\ Len(hist) = 1 + Len(inp.texts) /\ hist[1].source = ListSource(inp)

\* the block parse returned the one list node whose items are the inline
\* parses of the texts
IsListOfItems(inp) ==
  hist[1].snap = OneList(inp.bullet, [i \in DOMAIN inp.texts |-> hist[i + 1].snap])

StartsWithBullet(text) == ReMatch(LIST_ITEM_PREFIX_R, text).ok

\* an item line of nothing but three or more of - * _ and spaces, which is a
\* horizontal rule
IsRuleLine(bullet, text) == ReMatch(HR_R, bullet \o <<SP>> \o text \o <<NL, NL>>).ok

\* text begins and ends with a character that is not white space
IsTrimmed(text) == text # <<>> /\ Strip(text) = text

PlainItem(bullet, text) ==
  IsTrimmed(text) /\ ~StartsWithBullet(text) /\ ~IsRuleLine(bullet, text)

MaxSelectTokens == 3
SelectTokens == {<<"a">>, <<"*">>, <<"*", "*", "*">>, <<"_", "_">>, <<"#", SP>>, <<NL, NL>>}
SelectSources == TokenTexts(SelectTokens, MaxSelectTokens)

NextSelect ==
  \/ OneCall({"default_implicit_parse"}, {"fresh"}, SelectSources)
  \/ Iterate
  \/ Return
  \/ Finish

SpecSelect == Init /\ [][NextSelect]_vars

\* the indices in rl of the rules whose match returns a capture
Matching(rl, source, state) ==
  {m \in DOMAIN rl : RuleMatch(rl[m].name, source, state).ok}

\* quality of rule rl[m] for its capture, 0 without a quality function
QualityOf(rl, m, source, state) ==
  IF rl[m].quality
  THEN RuleQuality(rl[m].name, RuleMatch(rl[m].name, source, state))
  ELSE 0

\* rl[s] is selected as the claim says, ms being the matching rules and
\* tried the rules whose match was called
SelectedAsClaimed(rl, s, ms, tried, source, state) ==
  /\ s \in ms
  /\ \A m \in ms : rl[s].order <= rl[m].order
  /\ \A m \in ms :
       (rl[m].order = rl[s].order /\ rl[m].quality) =>
         /\ rl[s].quality
         /\ QualityOf(rl, m, source, state) <= QualityOf(rl, s, source, state)
         /\ QualityOf(rl, m, source, state) = QualityOf(rl, s, source, state) => s <= m
  /\ \A m \in ms :
       rl[m].order > rl[s].order => \A t \in DOMAIN tried : tried[t] # rl[m].name

\* the selection sel of a turn over rl is as the claim says
SelectionAsClaimed(rl, sel, source, state) ==
  sel.capture.ok =>
    SelectedAsClaimed(rl, CHOOSE s \in DOMAIN rl : rl[s].name = sel.rule_type,
                      Matching(rl, source, state), sel.tried, source, state)

TriedNow ==
  IF stack # <<>> /\ stack[Len(stack)].source # <<>>
  THEN LET tried == Scan(ActiveRules(RunningParser), 1, NoSelection(current_order),
                         stack[Len(stack)].source, states[StateId]).tried
       IN {tried[t] : t \in DOMAIN tried}
  ELSE {}

\* C15: the rule list of the default parser is the canonical sequence: its
\* first entry is heading, its last entry is text, and the Array rule is not
\* in it, so that no turn of the parse loop calls the match of Array
CanonicalRuleList ==
  /\ default_raw_parse.rule_list[1] = "heading"
  /\ default_raw_parse.rule_list[Len(default_raw_parse.rule_list)] = "text"
  /\ \A i \in DOMAIN default_raw_parse.rule_list : default_raw_parse.rule_list[i] # "Array"
  /\ call.fn \in ParseFns => "Array" \notin TriedNow

\* the rule type the turn of the parse loop selects for the remaining source
\* of the innermost activation, "None" without a turn or a match
SelectedNow ==
  IF stack # <<>> /\ stack[Len(stack)].source # <<>>
  THEN Scan(ActiveRules(RunningParser), 1, NoSelection(current_order),
            stack[Len(stack)].source, states[StateId]).rule_type
  ELSE "None"

\* C16: a non-numeric rule order is not fatal and excludes the rule: when
\* parser_for is given a rule map in which the order of some rule is not a
\* number, it returns a parser, reports that rule, and the rule list of the
\* parser does not have it, so that no turn of the parse loop selects it
NonNumericOrderExcludes ==
  \A i \in DOMAIN parser.rules :
    ~OrderIsNumber(parser.rules[i]) =>
      /\ parser.ok
      /\ \E w \in DOMAIN parser.warned : parser.warned[w] = parser.rules[i].name
      /\ \A r \in DOMAIN parser.rule_list : parser.rule_list[r] # parser.rules[i].name
      /\ SelectedNow # parser.rules[i].name

\* C17: flat sibling list: every element of the result of a parse level is a
\* node with a type, never a list: the nodes of a list that the parse
\* function of the selected rule returns are siblings in the result
FlatSiblingList ==
  \A k \in DOMAIN stack :
    \A i \in DOMAIN stack[k].result :
      /\ ~IsList(stack[k].result[i])
      /\ IsPtr(stack[k].result[i]) \/ "type" \in DOMAIN stack[k].result[i]

\* s is empty or ends in a newline with only spaces after it
EndsOnLineBoundary(s) ==
  s = <<>> \/ \E i \in DOMAIN s : s[i] = NL /\ \A j \in (i + 1)..Len(s) : s[j] = SP

\* the spaces at the end of s
TrailingSpaces(s) ==
  SubSeq(s, 1 + Least({i \in 0..Len(s) : \A j \in (i + 1)..Len(s) : s[j] = SP}), Len(s))

\* the list rule is tried on source after the text previous: when LIST_R
\* matches the source with the indentation put back, List.match returns a
\* capture
ListAttempted(previous, source, state) ==
  ReMatch(LIST_R, TrailingSpaces(previous) \o source).ok => List_match(source, state).ok

\* C18: list matching on a line boundary: in every turn of the parse loop
\* in which the text of the previous capture is empty or ends on a line
\* boundary, and the state is in block mode or has _list set, the list rule
\* is tried on the remaining source, so that a list after a paragraph and its
\* blank line is a list node
ListOnLineBoundary ==
  (/\ stack # <<>>
   /\ stack[Len(stack)].source # <<>>
   /\ EndsOnLineBoundary(PreviousCaptureString(states[StateId]))
   /\ Truthy(states[StateId]._list) \/ ~Truthy(states[StateId].inline))
  => ListAttempted(PreviousCaptureString(states[StateId]), stack[Len(stack)].source,
                   states[StateId])

(***************************************************************************)
(* One block or inline parse, with a new dict as state, of a source made   *)
(* of up to MaxTileTokens pieces: blank lines with a space between them,   *)
(* a list, spaces and a letter.                                            *)
(***************************************************************************)
MaxTileTokens == 3
TileTokens == {<<NL, SP, NL>>, <<"-", SP, "a", NL, NL>>, <<SP, SP>>, <<"b">>}
TileSources == TokenTexts(TileTokens, MaxTileTokens)

NextTile ==
  \/ OneCall({"default_block_parse", "default_inline_parse"}, {"fresh"}, TileSources)
  \/ Iterate
  \/ Return
  \/ Finish

SpecTile == Init /\ [][NextTile]_vars

\* the capture of selection sel is text at the front of source
IsPrefixCapture(sel, source) ==
  (sel.capture.ok /\ sel.capture.pos = 0) => StartsWith(source, sel.capture.c[0].str)

\* C19: consumed captures tile the source: in every turn of the parse loop
\* the full match of the selected capture is a prefix of the remaining
\* source, so that cutting its length off the source removes the matched
\* text and nothing else, also when the list rule is selected
CapturesTileSource ==
  stack # <<>> /\ stack[Len(stack)].source # <<>> =>
    IsPrefixCapture(Scan(ActiveRules(RunningParser), 1, NoSelection(current_order),
                         stack[Len(stack)].source, states[StateId]),
                    stack[Len(stack)].source)

\* the truth values of state['inline'], state['_list'], state['in_table']
Flags(state) == <<Truthy(state.inline), Truthy(state._list), Truthy(state.in_table)>>

\* the flags at the entry of the engine for the running call of an entry
\* point with a dict that no parse has used
EntryFlags == <<InlineOf(call.fn, call.source), FALSE, FALSE>>

\* the flags a parse function called with flags sets for the parse loop it
\* calls: parse_inline (line 245), content_map of List.parse (627-633),
\* parse_table and parse_table_row (316, 342); the others set none
NestedFlags(frame, flags) ==
  CASE frame.k = "parse_inline" -> <<TRUE, flags[2], flags[3]>>
    [] frame.k = "list" -> <<~frame.last_item_was_a_paragraph, TRUE, flags[3]>>
    [] frame.k = "table" -> <<TRUE, flags[2], TRUE>>
    [] OTHER -> flags

RECURSIVE LevelFlags(_)
\* the flags the parse loop of the activation at depth k was called with
LevelFlags(k) ==
  IF k = 1 THEN EntryFlags ELSE NestedFlags(stack[k].ret.frame, LevelFlags(k - 1))

\* C20: mode flags are save/restore scoped: whenever a parse loop goes on
\* after the parse function of a rule returned, the truth values of inline,
\* _list and in_table are those the loop was called with, whatever parse
\* loops the function called; after the top-level parse returned they are
\* those at the entry of the engine
ModeFlagsScoped ==
  /\ stack # <<>> => Flags(states[StateId]) = LevelFlags(Len(stack))
  /\ (stack = <<>> /\ hist # <<>>) => Flags(states[StateId]) = EntryFlags

\* the parse function of the table rule returned to the top-level loop of a
\* block parse, which goes on with the text after the table: the table had
\* its rows parsed with inline and in_table set, and none of the flags is set
ModeFlagsWitness ==
  /\ call.fn = "default_block_parse"
  /\ Len(stack) = 1
  /\ stack[1].source # <<>>
  /\ Len(stack[1].result) = 1
  /\ stack[1].result[1].type = "table"
  /\ Flags(states[StateId]) = <<FALSE, FALSE, FALSE>>

(***************************************************************************)
(* One block parse, with a new dict as state, of up to MaxPieces           *)
(* paragraphs, each a reference to the name a or a definition: of a, of A  *)
(* (the same name, with a title) or of b.                                  *)
(***************************************************************************)
MaxPieces == 3
RefPieces ==
  {[kind |-> "ref", name |-> <<>>, target |-> <<>>, title |-> PyNone, text |-> <<"[", "a", "]", "[", "A", "]", NL, NL>>],
   [kind |-> "ref", name |-> <<>>, target |-> <<>>, title |-> PyNone, text |-> <<"!", "[", "a", "]", "[", "]", NL, NL>>]}
DefPieces ==
  {[kind |-> "def", name |-> <<"a">>, target |-> <<"u">>, title |-> PyNone, text |-> <<"[", "a", "]", ":", SP, "u", NL, NL>>],
   [kind |-> "def", name |-> <<"a">>, target |-> <<"v">>, title |-> PyStr(<<"T">>),
    text |-> <<"[", "A", "]", ":", SP, "v", SP, DQ, "T", DQ, NL, NL>>],
   [kind |-> "def", name |-> <<"b">>, target |-> <<"w">>, title |-> PyNone, text |-> <<"[", "b", "]", ":", SP, "w", NL, NL>>]}
PieceSeqs == UNION {[1..k -> RefPieces \cup DefPieces] : k \in 1..MaxPieces}
PiecesSource(ps) == Flatten([i \in DOMAIN ps |-> ps[i].text])

NextRedef ==
  \/ OneCall({"default_block_parse"}, {"fresh"}, {PiecesSource(ps) : ps \in PieceSeqs})
  \/ Iterate
  \/ Return
  \/ Finish

SpecRedef == Init /\ [][NextRedef]_vars

\* piece i of ps is the last definition of its name
IsLastDefinition(ps, i) ==
  /\ ps[i].kind = "def"
  /\ \A j \in DOMAIN ps : (ps[j].kind = "def" /\ ps[j].name = ps[i].name) => j <= i

\* the link and image nodes of the tree, all of references to the name a
ReferenceNodes(tree) == NodesOfType(tree, "link") \cup NodesOfType(tree, "image")

\* every node of a reference has the target and the title of definition d
ResolvedTo(tree, d) ==
  \A n \in ReferenceNodes(tree) :
    /\ {"target", "title"} \subseteq DOMAIN n
    /\ n.target = PyStr(d.target)
    /\ n.title = d.title

\* C21: the last definition wins for every reference: when the parse of a
\* source with one or more definitions of a name returned, every link or
\* image node of a reference to that name has the target and the title of
\* the last of these definitions, wherever the reference is
LastDefinitionWins ==
  \A ps \in PieceSeqs :
    (hist # <<>> /\ hist[1].source = PiecesSource(ps)) =>
      /\ (\E j \in DOMAIN ps : ps[j].kind = "ref") => ReferenceNodes(hist[1].snap) # {}
      /\ \A i \in DOMAIN ps :
           (IsLastDefinition(ps, i) /\ ps[i].name = <<"a">>) => ResolvedTo(hist[1].snap, ps[i])

\* the parse of the definition of a with title T, a reference, and the
\* definition of a without title returned: the link has the target u and no
\* title
LastDefinitionWitness ==
  /\ hist # <<>>
  /\ hist[1].source = <<"[", "A", "]", ":", SP, "v", SP, DQ, "T", DQ, NL, NL, "[", "a", "]", "[", "A", "]", NL, NL, "[", "a", "]", ":", SP, "u", NL, NL>>
  /\ \E n \in NodesOfType(hist[1].snap, "link") : n.target = PyStr(<<"u">>) /\ n.title = PyNone

(***************************************************************************)
(* Array.react on its own: one call with a list of up to MaxSiblings text  *)
(* and br nodes, an output function that returns the node it is given with *)
(* state['key'], and a state whose key is k.  A step is the call up to the *)
(* loop, one turn of the outer while loop, or the return; the turns stop   *)
(* when MaxOutputs calls of output were made.                              *)
(***************************************************************************)
MaxSiblings == 3
MaxOutputs == 5
SiblingNodes ==
  {[type |-> "text", content |-> PyStr(<<"a">>)], [type |-> "text", content |-> PyStr(<<"b">>)],
   [type |-> "br"]}
SiblingLists == UNION {[1..k -> SiblingNodes] : k \in 0..MaxSiblings}
EntryKey == PyStr(<<"k">>)

\* lines 408-412: old_key = state['key'], result = [], i = 0, key = 0
Array_react_call(arr) ==
  /\ react = NoReact
  /\ react' = [pc |-> "while", arr |-> arr, i |-> 0, key |-> 0, result |-> <<>>,
               state_key |-> EntryKey, old_key |-> EntryKey]
  /\ UNCHANGED <<states, call, stack, heap, current_order, hist, err, out, pre, parser, output>>

\* the Python index of the last of the text nodes next to each other from
\* Python index i on (lines 419-421: the inner while loop)
ReactRunEnd(arr, i) ==
  Least({j \in i..(Len(arr) - 1) : j + 1 = Len(arr) \/ arr[j + 2].type # "text"})

\* the node given to output at Python index i: a new text node with the
\* contents of the run, or arr[i]
ReactNode(arr, i) ==
  IF arr[i + 1].type = "text"
  THEN [type |-> "text",
        content |-> PyStr(Flatten([j \in 1..(ReactRunEnd(arr, i) - i + 1) |->
                                     arr[i + j].content.str]))]
  ELSE arr[i + 1]

\* lines 413-424: one turn of while i < len(arr)
Array_react_turn ==
  /\ react.pc = "while"
  /\ react.i < Len(react.arr)
  /\ Len(react.result) < MaxOutputs
  /\ react' = [react EXCEPT
                 !.state_key = PyStr(IntToStr(react.i)),
                 !.i = IF react.arr[react.i + 1].type = "text"
                       THEN ReactRunEnd(react.arr, react.i) ELSE react.i,
                 !.result = Append(@, [node |-> ReactNode(react.arr, react.i),
                                       key |-> PyStr(IntToStr(react.i))]),
                 !.key = @ + 1]
  /\ UNCHANGED <<states, call, stack, heap, current_order, hist, err, out, pre, parser, output>>

\* lines 426-427: state['key'] = old_key, return result
Array_react_return ==
  /\ react.pc = "while"
  /\ ~(react.i < Len(react.arr))
  /\ react' = [react EXCEPT !.pc = "return", !.state_key = react.old_key]
  /\ UNCHANGED <<states, call, stack, heap, current_order, hist, err, out, pre, parser, output>>

CallArrayReact == \E arr \in SiblingLists : Array_react_call(arr)

NextReact ==
  \/ CallArrayReact
  \/ Array_react_turn
  \/ Array_react_return

SpecReact == Init /\ [][NextReact]_vars

RECURSIVE Coalesced(_, _)
\* the nodes of arr from Python index i on, each run of text nodes next to
\* each other as one text node
Coalesced(arr, i) ==
  IF i >= Len(arr) THEN <<>>
  ELSE <<ReactNode(arr, i)>>
       \o Coalesced(arr, 1 + (IF arr[i + 1].type = "text" THEN ReactRunEnd(arr, i) ELSE i))

\* C22: element-format array rendering terminates and coalesces: Array.react
\* never makes more calls of output than the list has nodes that are not
\* text plus runs of text nodes, and when it returns its result is one
\* output for each of these, in order, a run given as one merged text node,
\* and state['key'] is what it was at the call
ReactRendersRuns ==
  /\ Len(react.result) <= Len(Coalesced(react.arr, 0))
  /\ react.pc = "return" =>
       /\ [j \in DOMAIN react.result |-> react.result[j].node] = Coalesced(react.arr, 0)
       /\ react.state_key = EntryKey

(***************************************************************************)
(* One implicit parse, with a new dict as state, of a source made of up to *)
(* MaxHtmlTokens pieces, among them characters that sanitize_text          *)
(* replaces, and the HTML output of the list returned.                     *)
(***************************************************************************)
MaxHtmlTokens == 3
HtmlTokens == {<<"a">>, <<"<">>, <<"&">>, <<"*", "a", "*">>, <<SP, "b", NL, NL>>}
HtmlSources == TokenTexts(HtmlTokens, MaxHtmlTokens)

NextHtml ==
  \/ OneCall({"default_implicit_parse"}, {"fresh"}, HtmlSources)
  \/ Iterate
  \/ Return
  \/ Finish
  \/ Output

SpecHtml == Init /\ [][NextHtml]_vars

\* the lists of nodes of a tree without references: the tree and the
\* content of every node whose content is a list
ListsOf(tree) ==
  {tree} \cup {n.content : n \in {m \in NodesOf(tree) : "content" \in DOMAIN m /\ IsList(m.content)}}

\* the HTML output of each node of the list on its own, one after the other
EachOnItsOwn(arr, h) == JoinAll([i \in DOMAIN arr |-> nested_output(arr[i], h)])

\* C23: HTML array rendering is plain concatenation: for every list of
\* nodes of a parsed tree the output of Array.html is the outputs of the
\* nodes, each rendered on its own, one after the other, which is also what
\* default_html_output returned for the tree; and the call leaves the tree
\* as it was
HtmlIsConcatenation ==
  /\ [](\A h \in DOMAIN hist :
          /\ \A arr \in ListsOf(hist[h].snap) :
               Array_html(arr.list, 1, heap) = EachOnItsOwn(arr.list, heap)
          /\ out.of = h => out.html = EachOnItsOwn(hist[h].tree.list, heap))
  /\ [][out' # out => (hist' = hist /\ heap' = heap)]_vars

\* the output of the list of the three text nodes a, < and & returned: one
\* string with both characters replaced
HtmlConcatenationWitness ==
  /\ out.of = 1
  /\ hist[1].source = <<"a", "<", "&">>
  /\ Len(hist[1].tree.list) = 3
  /\ out.html = Returned(<<"a", "&", "l", "t", ";", "&", "a", "m", "p", ";">>)

(***************************************************************************)
(* One block parse, with a new dict as state, of up to MaxItemLines lines: *)
(* an item, an item with a blank line after it, an indented item (a list   *)
(* in the item before it).                                                 *)
(***************************************************************************)
MaxItemLines == 3
ItemLines == {<<"-", SP, "a", NL>>, <<"-", SP, "a", NL, NL>>, <<SP, SP, "-", SP, "b", NL>>}
ItemLineSources == TokenTexts(ItemLines, MaxItemLines)

NextItems ==
  \/ OneCall({"default_block_parse"}, {"fresh"}, ItemLineSources)
  \/ Iterate
  \/ Return
  \/ Finish

SpecItems == Init /\ [][NextItems]_vars

\* the parse loop of the innermost activation was called by List.parse for
\* item i of its list
IsItemParse(stk, i) ==
  /\ stk # <<>>
  /\ stk[Len(stk)].ret.frame.k = "list"
  /\ stk[Len(stk)].ret.frame.i = i

\* the parse in progress is in paragraph mode: state['inline'] is not set
ParagraphMode(sts) == ~Truthy(sts[StateId].inline)

\* the content of item i of the list of frame has a blank line
ItemHasBlankLine(frame, i) == HasBlankLine(List_content(frame.items[i]))

\* C24: list item mode: in the step in which List.parse goes from the parse
\* of item i - 1 of its list to the parse of item i (or starts with item 1),
\* item i is parsed in paragraph mode exactly when its content has a blank
\* line, or it is the last item and item i - 1 of the same list was parsed
\* in paragraph mode, whatever lists were parsed inside item i - 1
ItemModeContagion ==
  [][/\ (Len(stack') = Len(stack) + 1 /\ IsItemParse(stack', 1)) =>
          (ParagraphMode(states') <=> ItemHasBlankLine(stack'[Len(stack')].ret.frame, 1))
     /\ \A i \in 2..MaxItemLines :
          (Len(stack') = Len(stack) /\ IsItemParse(stack, i - 1) /\ IsItemParse(stack', i)) =>
            (ParagraphMode(states') <=>
               \/ ItemHasBlankLine(stack'[Len(stack')].ret.frame, i)
               \/ /\ i = Len(stack'[Len(stack')].ret.frame.items)
                  /\ ParagraphMode(states))]_vars

\* the last item of the list - a / blank line / indented - b / - a is being
\* parsed in paragraph mode: its content has no blank line, the item before
\* it has one, and the list inside that item had its one item parsed in
\* inline mode
ItemModeWitness ==
  /\ call.source = <<"-", SP, "a", NL, NL, SP, SP, "-", SP, "b", NL, "-", SP, "a", NL>>
  /\ Len(stack) = 2
  /\ IsItemParse(stack, 2)
  /\ stack[2].result = <<>>
  /\ ~ItemHasBlankLine(stack[2].ret.frame, 2)
  /\ ParagraphMode(states)

(***************************************************************************)
(* One block parse, with a new dict as state, of up to MaxQuoteTokens of:  *)
(* a quoted line with and without the space after the mark, a line end.    *)
(***************************************************************************)
MaxQuoteTokens == 3
QuoteTokens == {<<">", SP, "a">>, <<">", "b">>, <<NL>>}
QuoteSources == TokenTexts(QuoteTokens, MaxQuoteTokens)

NextQuote ==
  \/ OneCall({"default_block_parse"}, {"fresh"}, QuoteSources)
  \/ Iterate
  \/ Return
  \/ Finish

SpecQuote == Init /\ [][NextQuote]_vars

RECURSIVE UnquotedLines(_)
\* s with the mark of a quote, the spaces before it and one space after it
\* taken from the start of every line that has one
UnquotedLines(s) ==
  IF s = <<>> THEN <<>>
  ELSE LET m == ReMatch(BlockQuote_PREFIX_R, s)
           rest == IF m.ok THEN SubSeq(s, Len(Group(m, s, 0)) + 1, Len(s)) ELSE s
           ends == {n \in 1..Len(rest) : rest[n] = NL}
           n == IF ends = {} THEN Len(rest) ELSE CHOOSE e \in ends : \A f \in ends : e <= f
       IN SubSeq(rest, 1, n) \o UnquotedLines(SubSeq(rest, n + 1, Len(rest)))

\* C25: blockquote prefix stripping: the content that BlockQuote.parse gives
\* to the recursive parse is its capture with one mark and one optional
\* space after it removed from every line, not only from the first
QuoteStripsEveryLine ==
  \A k \in DOMAIN stack :
    (stack[k].ret.rule_type = "blockQuote" /\ stack[k].result = <<>>) =>
      stack[k].source = UnquotedLines(stack[k].ret.capture.c[0].str)

\* the rules of the default parser whose match gives a capture for what is
\* left of the source of the innermost parse loop
MatchingNow ==
  LET rl == ActiveRules(default_raw_parse)
  IN {rl[m].name : m \in Matching(rl, stack[Len(stack)].source, states[StateId])}

\* C26: the catchall always matches: in every turn of a parse loop of the
\* default parser, in block or inline mode, in or out of a table or a list,
\* the text rule matches what is left of the source, and no parse ends with
\* 'Could not find a matching rule'
CatchallMatches ==
  /\ err # "Could not find a matching rule"
  /\ (stack # <<>> /\ stack[Len(stack)].source # <<>>) =>
       RuleMatch("text", stack[Len(stack)].source, states[StateId]).ok

\* in the cell of a table, parsed inline, the text rule is the only rule
\* that matches what is left
CatchallWitness ==
  /\ stack # <<>>
  /\ stack[Len(stack)].source # <<>>
  /\ Truthy(states[StateId].in_table)
  /\ Truthy(states[StateId].inline)
  /\ MatchingNow = {"text"}
  /\ err = "None"

(***************************************************************************)
(* One implicit parse, with a new dict as state, of up to MaxOrderTokens   *)
(* of a, *, *** and __: em, strong and u have the same order, and their    *)
(* parse functions call the parse loop again.                              *)
(***************************************************************************)
MaxOrderTokens == 3
OrderTokens == {<<"a">>, <<"*">>, <<"*", "*", "*">>, <<"_", "_">>}
OrderSources == TokenTexts(OrderTokens, MaxOrderTokens)

NextOrder ==
  \/ OneCall({"default_implicit_parse"}, {"fresh"}, OrderSources)
  \/ Iterate
  \/ Return
  \/ Finish

SpecOrder == Init /\ [][NextOrder]_vars

\* the values of the global current_order: 0 of line 385, the orders of the
\* default rules, and the value the construction of default_rules leaves
CurrentOrders == 0..(default_rules[Len(default_rules)].order + 1)

\* the scan of one iteration gives sel whatever current_order holds at its start
SameForEveryOrder(rl, source, state, sel) ==
  \A o \in CurrentOrders : Scan(rl, 1, NoSelection(o), source, state) = sel

\* C27: the shared current_order does not leak: in every iteration of a
\* parse loop the scan selects the same rule with the same capture, calls
\* the same match functions and leaves the same current_order, for every
\* value the global current_order holds when the iteration starts
CurrentOrderDoesNotLeak ==
  (stack # <<>> /\ stack[Len(stack)].source # <<>>) =>
    SameForEveryOrder(ActiveRules(RunningParser), stack[Len(stack)].source, states[StateId],
                      Scan(ActiveRules(RunningParser), 1, NoSelection(current_order),
                           stack[Len(stack)].source, states[StateId]))

\* the parse loop that Em.parse called for ***a*** starts with the order of
\* em, strong and u in current_order, left by the scan of the outer loop, and
\* of em and strong, which both match **a**, selects strong
CurrentOrderWitness ==
  /\ Len(stack) = 2
  /\ stack[2].result = <<>>
  /\ stack[2].source = <<"*", "*", "a", "*", "*">>
  /\ current_order = RuleOf(default_rules, "em").order
  /\ SelectedNow = "strong"
  /\ {"em", "strong"} \subseteq TriedNow

====
